---- MODULE Spec2Model ----
(***************************************************************************)
(* Resume import / parsing pipeline and ATS scoring engine of the          *)
(* Resume-Builder front end, as state machines.                            *)
(*                                                                         *)
(*   SpecFile     : one invocation of parseResumeFile after another, with  *)
(*                  every await point of parsePDF / parseDOCX a step that  *)
(*                  either resolves or throws.                             *)
(*   SpecATS      : calls of calculateATSScore on a resume record that the *)
(*                  caller edits between calls.                            *)
(*   SpecSections : calls of detectSections on texts built line by line,   *)
(*                  with the module-level RegExp objects (lastIndex) as    *)
(*                  state.                                                 *)
(*   SpecOverlaps : resolveOverlaps on lists of SectionMatch sorted by     *)
(*                  startIndex.                                            *)
(*                                                                         *)
(* Texts whose characters matter are sequences of one-character strings.   *)
(* Extracted document texts, of which only the length, the line structure  *)
(* and the white space matter, are sequences of runs [c, n]: n >= 1        *)
(* characters of class "sp" (space/tab), "nl" (newline) or "ch" (anything  *)
(* else), adjacent runs being of different classes.                        *)
(***************************************************************************)
EXTENDS Integers, Sequences, FiniteSets, TLC

VARIABLES
    \* ---- parseResumeFile (src/lib/resume-parser/index.ts) ----
    pc,          \* position of the invocation
    file,        \* the File argument: [type, name]
    numPages,    \* pdf.numPages
    pageNum,     \* loop variable of parsePDF
    textParts,   \* textParts of parsePDF
    htmlMsgs,    \* htmlResult.messages of parseDOCX
    extracted,   \* what parsePDF / parseDOCX resolved to: [text, pages, messages]
    rawText,     \* rawText of parseResumeFile
    source,      \* source of parseResumeFile
    warnings,    \* warnings of parseResumeFile
    result,      \* what the returned promise settled to
    pdfCalls,    \* invocations of parsePDF in this invocation
    docxCalls,   \* invocations of parseDOCX in this invocation
    parseCalls,  \* invocations of parseResumeText in this invocation
    \* ---- section detector (section-detector.ts) ----
    secText,       \* the text handed to detectSections, a sequence of lines
    lastIndex,     \* lastIndex of DATE_PATTERNS[1..3], URL_PATTERN, GITHUB_PATTERN
    firstSections, \* what the first detectSections call on secText returned
    lastSections,  \* what the latest detectSections call on secText returned
    detectCount,   \* detectSections calls on secText so far: 0, 1, 2 for two or more
    \* ---- resolveOverlaps on its own ----
    ovInput,       \* a list of SectionMatch sorted by startIndex
    ovOutput,      \* resolveOverlaps(ovInput), once computed
    ovDone,        \* whether ovOutput was computed from ovInput
    \* ---- ATS score panel (calculateATSScore) ----
    data,           \* the resume record (ExtendedResumeData)
    jobDesc,        \* the job description: [given, text]
    atsScore,       \* the ATSScore of resume and jobDescription, once computed
    scored,         \* whether atsScore was computed
    keywordsBefore, \* breakdown.keywords before the latest addition to skills, or -1
    added,          \* additions to skills so far
    \* ---- parseDate ----
    dateInput,        \* the argument of parseDate
    dateResult,     \* what parseDate(dateInput) returned, once called
    dateDone,       \* whether parseDate was called
    \* ---- convertToResumeData ----
    convInput,      \* the ParsedResume argument
    convResult,     \* what convertToResumeData(convInput) returned, once called
    convDone,       \* whether convResult was computed from convInput
    \* ---- parseSkills ----
    skillsInput,    \* the content argument of parseSkills
    skillsResult,   \* what parseSkills(skillsInput) returned, once called
    skillsDone,     \* whether parseSkills was called on skillsInput
    \* ---- parseResumeText (src/lib/resume-parser/index.ts) ----
    txtLines,      \* rawText, a sequence of lines
    txtIndex,      \* lastIndex of the RegExp objects, as lastIndex above
    txtParsed,     \* what the latest parseResumeText(rawText, ...) returned
    txtCalls,       \* parseResumeText calls on rawText so far
    \* ---- parseExperiences (content-parser.ts) ----
    expEntries,     \* the entries written in the experience section handed to parseExperiences
    expResult,      \* what parseExperiences returned, once called
    expDone,         \* whether parseExperiences was called
    \* ---- parseEducation (content-parser.ts) ----
    eduEntries,     \* the entries written in the education section handed to parseEducation
    eduResult,      \* what parseEducation returned, once called
    eduDone,         \* whether parseEducation was called
    \* ---- ResumeImport (src/components/resume-import/index.tsx) ----
    importState,      \* ResumeImport: 'idle', 'dragging', 'parsing', 'preview' or 'error'
    error,            \* the message shown in the error panel, or null
    parsedResume,     \* the ParsedResume of the preview, or null
    dragCounter,      \* drag enter events minus drag leave events
    panel,            \* the panel that AnimatePresence has in the page
    requests,         \* the handleFile calls so far, in order, with whether parseResumeFile is pending
    shownRequest,      \* the handleFile call whose result set state last; 0 for none
    \* ---- resumeReducer (src/lib/template-context.tsx) ----
    objects,        \* the SectionConfig objects in memory, by address
    resumeData,     \* the state of resumeReducer; sectionConfig is an array of addresses
    dispatched,     \* the type of the action dispatched last, 'none' before the first
    dispatches      \* the actions dispatched so far

fileVars == <<pc, file, numPages, pageNum, textParts, htmlMsgs, extracted, rawText,
              source, warnings, result, pdfCalls, docxCalls, parseCalls>>

secVars == <<secText, lastIndex, firstSections, lastSections, detectCount>>

ovVars == <<ovInput, ovOutput, ovDone>>

atsVars == <<data, jobDesc, atsScore, scored, keywordsBefore, added>>

dateVars == <<dateInput, dateResult, dateDone>>

convVars == <<convInput, convResult, convDone>>

skillVars == <<skillsInput, skillsResult, skillsDone>>

txtVars == <<txtLines, txtIndex, txtParsed, txtCalls>>

expVars == <<expEntries, expResult, expDone>>

eduVars == <<eduEntries, eduResult, eduDone>>

impVars == <<importState, error, parsedResume, dragCounter, panel, requests, shownRequest>>

resVars == <<objects, resumeData, dispatched, dispatches>>

vars ==
    <<fileVars, secVars, ovVars, atsVars, dateVars, convVars, skillVars, txtVars, expVars, eduVars, impVars,
      resVars>>

otherThanFile == <<secVars, ovVars, atsVars, dateVars, convVars, skillVars, txtVars, expVars,
      eduVars,
      impVars,
      resVars>>
otherThanSec  == <<fileVars, ovVars, atsVars, dateVars, convVars, skillVars, txtVars, expVars,
      eduVars,
      impVars,
      resVars>>
otherThanOv   == <<fileVars, secVars, atsVars, dateVars, convVars, skillVars, txtVars, expVars,
      eduVars,
      impVars,
      resVars>>
otherThanAts  == <<fileVars, secVars, ovVars, dateVars, convVars, skillVars, txtVars, expVars,
      eduVars,
      impVars,
      resVars>>
otherThanDate == <<fileVars, secVars, ovVars, atsVars, convVars, skillVars, txtVars, expVars,
      eduVars,
      impVars,
      resVars>>
otherThanConv == <<fileVars, secVars, ovVars, atsVars, dateVars, skillVars, txtVars, expVars,
      eduVars,
      impVars,
      resVars>>
otherThanSkill == <<fileVars, secVars, ovVars, atsVars, dateVars, convVars, txtVars, expVars,
      eduVars,
      impVars,
      resVars>>
otherThanTxt == <<fileVars, secVars, ovVars, atsVars, dateVars, convVars, skillVars, expVars,
      eduVars,
      impVars,
      resVars>>
otherThanExp ==
    <<fileVars, secVars, ovVars, atsVars, dateVars, convVars, skillVars, txtVars,
      eduVars,
      impVars,
      resVars>>
otherThanEdu ==
    <<fileVars, secVars, ovVars, atsVars, dateVars, convVars, skillVars, txtVars, expVars,
      impVars,
      resVars>>
otherThanImp ==
    <<fileVars, secVars, ovVars, atsVars, dateVars, convVars, skillVars, txtVars, expVars, eduVars,
      resVars>>
otherThanRes ==
    <<fileVars, secVars, ovVars, atsVars, dateVars, convVars, skillVars, txtVars, expVars, eduVars, impVars>>

(***************************************************************************)
(* Generic helpers                                                         *)
(***************************************************************************)
Absent == "<absent>"

Min(a, b) == IF a < b THEN a ELSE b
Max(a, b) == IF a > b THEN a ELSE b

RECURSIVE SumSeq(_)
SumSeq(s) == IF s = <<>> THEN 0 ELSE Head(s) + SumSeq(Tail(s))

\* String.prototype.toLowerCase on one character
ToLowerChar(c) ==
    CASE c = "A" -> "a" [] c = "B" -> "b" [] c = "C" -> "c" [] c = "D" -> "d"
      [] c = "E" -> "e" [] c = "F" -> "f" [] c = "G" -> "g" [] c = "H" -> "h"
      [] c = "I" -> "i" [] c = "J" -> "j" [] c = "K" -> "k" [] c = "L" -> "l"
      [] c = "M" -> "m" [] c = "N" -> "n" [] c = "O" -> "o" [] c = "P" -> "p"
      [] c = "Q" -> "q" [] c = "R" -> "r" [] c = "S" -> "s" [] c = "T" -> "t"
      [] c = "U" -> "u" [] c = "V" -> "v" [] c = "W" -> "w" [] c = "X" -> "x"
      [] c = "Y" -> "y" [] c = "Z" -> "z" [] OTHER -> c

ToLowerCase(s) == [i \in 1..Len(s) |-> ToLowerChar(s[i])]

\* String.prototype.endsWith
EndsWith(s, suffix) ==
    /\ Len(s) >= Len(suffix)
    /\ SubSeq(s, Len(s) - Len(suffix) + 1, Len(s)) = suffix

\* String.prototype.includes: sub occurs in s
Includes(s, sub) ==
    \E i \in 0..(Len(s) - Len(sub)) : \A j \in 1..Len(sub) : s[i + j] = sub[j]

(***************************************************************************)
(* Run-length texts                                                        *)
(***************************************************************************)
Run(c, n) == [c |-> c, n |-> n]
IsWs(r) == r.c \in {"sp", "nl"}

RunsLen(t) == SumSeq([i \in 1..Len(t) |-> t[i].n])

\* Merge adjacent runs of the same class.
RECURSIVE Normalize(_)
Normalize(t) ==
    IF Len(t) <= 1 THEN t
    ELSE LET rest == Normalize(Tail(t))
         IN  IF Head(t).c = Head(rest).c
             THEN <<Run(Head(t).c, Head(t).n + Head(rest).n)>> \o Tail(rest)
             ELSE <<Head(t)>> \o rest

RECURSIVE TrimStart(_)
TrimStart(t) == IF t # <<>> /\ IsWs(Head(t)) THEN TrimStart(Tail(t)) ELSE t

RECURSIVE TrimEnd(_)
TrimEnd(t) ==
    IF t # <<>> /\ IsWs(t[Len(t)]) THEN TrimEnd(SubSeq(t, 1, Len(t) - 1)) ELSE t

\* String.prototype.trim
Trim(t) == TrimEnd(TrimStart(t))

\* Array.prototype.join on run texts
RECURSIVE JoinRuns(_, _)
JoinRuns(parts, sep) ==
    IF parts = <<>> THEN <<>>
    ELSE IF Len(parts) = 1 THEN Head(parts)
    ELSE Normalize(Head(parts) \o sep \o JoinRuns(Tail(parts), sep))

(***************************************************************************)
(* DOCX text cleanup (docx-parser.ts, cleanExtractedText), on run texts.   *)
(* "\r\n" and "\r" are newlines of the run text already.                   *)
(***************************************************************************)
\* .replace(/[ \t]+/g, ' ')
CollapseSpaces(t) == [i \in 1..Len(t) |-> IF t[i].c = "sp" THEN Run("sp", 1) ELSE t[i]]

\* .replace(/\n{3,}/g, '\n\n')
CollapseNewlines(t) ==
    [i \in 1..Len(t) |-> IF t[i].c = "nl" /\ t[i].n >= 3 THEN Run("nl", 2) ELSE t[i]]

\* .split('\n').map((line) => line.trim()).join('\n'): a run of spaces that
\* touches a newline, the start or the end of the text is at the edge of a line.
RECURSIVE DropAt(_, _, _)
DropAt(t, i, keep) ==
    IF i > Len(t) THEN <<>>
    ELSE (IF keep[i] THEN <<t[i]>> ELSE <<>>) \o DropAt(t, i + 1, keep)

TrimLines(t) ==
    LET atEdge(i) == \/ i = 1
                     \/ i = Len(t)
                     \/ t[i - 1].c = "nl"
                     \/ t[i + 1].c = "nl"
        keep == [i \in 1..Len(t) |-> ~(t[i].c = "sp" /\ atEdge(i))]
    IN  Normalize(DropAt(t, 1, keep))

cleanExtractedText(t) == Trim(TrimLines(CollapseNewlines(CollapseSpaces(t))))

(***************************************************************************)
(* File type checks                                                        *)
(***************************************************************************)
PdfMime    == "application/pdf"
DocxMime   == "application/vnd.openxmlformats-officedocument.wordprocessingml.document"
MsWordMime == "application/msword"

NamePdf      == <<"c", "v", ".", "p", "d", "f">>
NamePdfUpper == <<"C", "V", ".", "P", "D", "F">>
NameDocx     == <<"c", "v", ".", "d", "o", "c", "x">>
NameDocxUpper == <<"c", "v", ".", "D", "O", "C", "X">>
NameDoc      == <<"c", "v", ".", "d", "o", "c">>
NameDocUpper == <<"c", "v", ".", "D", "o", "C">>
NameTxt      == <<"c", "v", ".", "t", "x", "t">>

FileTypes == {PdfMime, DocxMime, MsWordMime, "text/plain", ""}
FileNames == {NamePdf, NamePdfUpper, NameDocx, NameDocxUpper, NameDoc, NameDocUpper, NameTxt}
Files     == [type : FileTypes, name : FileNames]

isPDF(f) == f.type = PdfMime \/ EndsWith(ToLowerCase(f.name), <<".", "p", "d", "f">>)

isDOCX(f) == f.type = DocxMime \/ EndsWith(ToLowerCase(f.name), <<".", "d", "o", "c", "x">>)

isLegacyDOCCaseSensitive(f) == f.type = MsWordMime \/ EndsWith(f.name, <<".", "d", "o", "c">>)

isLegacyDOC(f) == f.type = MsWordMime \/ EndsWith(ToLowerCase(f.name), <<".", "d", "o", "c">>)

(***************************************************************************)
(* parseResumeFile                                                         *)
(***************************************************************************)
LegacyMsg      == "Legacy .doc format is not supported. Please convert to .docx or .pdf"
UnsupportedMsg == "Unsupported file format. Please upload a PDF or DOCX file."
EmptyMsg       == "Could not extract text from file. The file may be empty, corrupted, or image-based."
UnexpectedMsg  == "An unexpected error occurred while parsing the resume."
PagesWarning   == "Resume has more than 3 pages. Consider condensing to 1-2 pages for ATS."

MinTextLength == 50
MaxGoodPages  == 3

NoData == [present |-> FALSE, source |-> "", fileName |-> <<>>, warnings |-> <<>>]

Pending     == [state |-> "pending", success |-> FALSE, data |-> NoData, error |-> Absent]
Failure(m)  == [state |-> "resolved", success |-> FALSE, data |-> NoData, error |-> m]
Success(d)  == [state |-> "resolved", success |-> TRUE, data |-> d, error |-> Absent]
Rejected(m) == [state |-> "rejected", success |-> FALSE, data |-> NoData, error |-> m]

\* What an await point can throw: an Error with a message, an Error with an
\* empty message, a value that is no Error.
Thrown == {[isError |-> TRUE, message |-> "Invalid PDF structure"],
           [isError |-> TRUE, message |-> ""],
           [isError |-> FALSE, message |-> "not an Error"]}

\* A parseResumeFile without the try/catch around the awaits.
Uncaught(err) == Rejected(err.message)

\* index.ts 71-77: the catch-all of parseResumeFile
Caught(err) == Failure(IF err.isError THEN err.message ELSE UnexpectedMsg)

\* The format checks made after the extractor was chosen by isPDF alone.
dispatchExtractFirst(f) ==
    IF isPDF(f) THEN "pdf"
    ELSE IF isLegacyDOC(f) THEN "legacy"
    ELSE IF ~isDOCX(f) THEN "unsupported"
    ELSE "docx"

\* index.ts 20-54: which branch an invocation takes
dispatch(f) ==
    IF isLegacyDOC(f) THEN "legacy"
    ELSE IF ~isPDF(f) /\ ~isDOCX(f) THEN "unsupported"
    ELSE IF isPDF(f) THEN "pdf"
    ELSE "docx"

\* The empty-content check with the boundary off by one.
isEmptyContentOffByOne(t) == RunsLen(t) = 0 \/ RunsLen(Trim(t)) <= MinTextLength

\* index.ts 57: !rawText || rawText.trim().length < 50
isEmptyContent(t) == RunsLen(t) = 0 \/ RunsLen(Trim(t)) < MinTextLength

(***************************************************************************)
(* Inputs of the extractors                                                *)
(***************************************************************************)
MaxPages == 4

\* "\n\n--- Page Break ---\n\n" (pdf-parser.ts 94)
PageBreak == <<Run("nl", 2), Run("ch", 3), Run("sp", 1), Run("ch", 4), Run("sp", 1),
               Run("ch", 5), Run("sp", 1), Run("ch", 3), Run("nl", 2)>>

\* The text of one page, its lines joined (pdf-parser.ts 89).
PageTexts == { <<>>,
               <<Run("ch", 12)>>,
               <<Run("ch", 50)>>,
               <<Run("sp", 2), Run("ch", 49)>> }

\* textResult.value of mammoth.extractRawText, before the cleanup.
DocxValues == { <<>>,
                <<Run("ch", 49), Run("nl", 1)>>,
                <<Run("ch", 50)>>,
                <<Run("ch", 30), Run("sp", 3), Run("ch", 18)>>,
                <<Run("ch", 30), Run("sp", 3), Run("ch", 19)>>,
                <<Run("nl", 2), Run("ch", 40), Run("nl", 4), Run("sp", 2), Run("nl", 1),
                  Run("ch", 20)>> }

MammothMessages == { <<>>, <<"Unrecognised paragraph style">> }

NoExtract == [text |-> <<>>, pages |-> 0, messages |-> <<>>]

\* index.ts 83-171, as far as parseResumeFile is concerned: the ParsedResume
\* carries the text, the source, the file name and the warnings collected.
parsedOf(text, src, name, warns) ==
    [present |-> TRUE, source |-> src, fileName |-> name, warnings |-> warns]

(***************************************************************************)
(* Actions of parseResumeFile                                              *)
(***************************************************************************)
FileInit ==
    /\ pc = "idle"
    /\ file = [type |-> "", name |-> NameTxt]
    /\ numPages = 0
    /\ pageNum = 0
    /\ textParts = <<>>
    /\ htmlMsgs = <<>>
    /\ extracted = NoExtract
    /\ rawText = <<>>
    /\ source = ""
    /\ warnings = <<>>
    /\ result = Pending
    /\ pdfCalls = 0
    /\ docxCalls = 0
    /\ parseCalls = 0

\* index.ts 15-39/47: the call, up to the first await of the extractor.
Invoke(f) ==
    /\ pc \in {"idle", "done"}
    /\ file' = f
    /\ numPages' = 0
    /\ pageNum' = 0
    /\ textParts' = <<>>
    /\ htmlMsgs' = <<>>
    /\ extracted' = NoExtract
    /\ rawText' = <<>>
    /\ source' = ""
    /\ warnings' = <<>>
    /\ parseCalls' = 0
    /\ UNCHANGED otherThanFile
    /\ LET d == dispatch(f)
       IN  /\ pdfCalls' = IF d = "pdf" THEN 1 ELSE 0
           /\ docxCalls' = IF d = "docx" THEN 1 ELSE 0
           /\ result' = CASE d = "legacy" -> Failure(LegacyMsg)
                          [] d = "unsupported" -> Failure(UnsupportedMsg)
                          [] OTHER -> Pending
           /\ pc' = CASE d = "pdf" -> "pdf_arrayBuffer"
                      [] d = "docx" -> "docx_arrayBuffer"
                      [] OTHER -> "done"

\* An await point of an extractor throws: the exception reaches the catch of
\* parseResumeFile (index.ts 71-77).
Throw(e) ==
    /\ pc \in {"pdf_arrayBuffer", "pdf_getDocument", "pdf_getPage", "pdf_getTextContent",
               "docx_arrayBuffer", "docx_convertToHtml", "docx_extractRawText"}
    /\ result' = Caught(e)
    /\ pc' = "done"
    /\ UNCHANGED <<file, numPages, pageNum, textParts, htmlMsgs, extracted, rawText,
                   source, warnings, pdfCalls, docxCalls, parseCalls>>
    /\ UNCHANGED otherThanFile

\* pdf-parser.ts 26
PdfArrayBuffer ==
    /\ pc = "pdf_arrayBuffer"
    /\ pc' = "pdf_getDocument"
    /\ UNCHANGED <<file, numPages, pageNum, textParts, htmlMsgs, extracted, rawText,
                   source, warnings, result, pdfCalls, docxCalls, parseCalls>>
    /\ UNCHANGED otherThanFile

\* pdf-parser.ts 27
PdfGetDocument(n) ==
    /\ pc = "pdf_getDocument"
    /\ numPages' = n
    /\ pc' = "pdf_getMetadata"
    /\ UNCHANGED <<file, pageNum, textParts, htmlMsgs, extracted, rawText,
                   source, warnings, result, pdfCalls, docxCalls, parseCalls>>
    /\ UNCHANGED otherThanFile

\* pdf-parser.ts 33-48: getMetadata resolves or throws, the throw is swallowed;
\* then the loop starts at page 1.
PdfGetMetadata(throws) ==
    /\ pc = "pdf_getMetadata"
    /\ pageNum' = 1
    /\ pc' = "pdf_getPage"
    /\ UNCHANGED <<file, numPages, textParts, htmlMsgs, extracted, rawText,
                   source, warnings, result, pdfCalls, docxCalls, parseCalls>>
    /\ UNCHANGED otherThanFile

\* pdf-parser.ts 49
PdfGetPage ==
    /\ pc = "pdf_getPage"
    /\ pageNum <= numPages
    /\ pc' = "pdf_getTextContent"
    /\ UNCHANGED <<file, numPages, pageNum, textParts, htmlMsgs, extracted, rawText,
                   source, warnings, result, pdfCalls, docxCalls, parseCalls>>
    /\ UNCHANGED otherThanFile

\* pdf-parser.ts 50-97: the page's text is pushed; after the last page parsePDF
\* returns the parts joined by the page-break marker.
PdfGetTextContent(pageText) ==
    /\ pc = "pdf_getTextContent"
    /\ textParts' = Append(textParts, pageText)
    /\ pageNum' = pageNum + 1
    /\ IF pageNum + 1 <= numPages
       THEN /\ pc' = "pdf_getPage"
            /\ UNCHANGED extracted
       ELSE /\ pc' = "resume"
            /\ extracted' = [text |-> JoinRuns(textParts', PageBreak),
                             pages |-> numPages, messages |-> <<>>]
    /\ UNCHANGED <<file, numPages, htmlMsgs, rawText,
                   source, warnings, result, pdfCalls, docxCalls, parseCalls>>
    /\ UNCHANGED otherThanFile

\* docx-parser.ts 18
DocxArrayBuffer ==
    /\ pc = "docx_arrayBuffer"
    /\ pc' = "docx_convertToHtml"
    /\ UNCHANGED <<file, numPages, pageNum, textParts, htmlMsgs, extracted, rawText,
                   source, warnings, result, pdfCalls, docxCalls, parseCalls>>
    /\ UNCHANGED otherThanFile

\* docx-parser.ts 21
DocxConvertToHtml(msgs) ==
    /\ pc = "docx_convertToHtml"
    /\ htmlMsgs' = msgs
    /\ pc' = "docx_extractRawText"
    /\ UNCHANGED <<file, numPages, pageNum, textParts, extracted, rawText,
                   source, warnings, result, pdfCalls, docxCalls, parseCalls>>
    /\ UNCHANGED otherThanFile

\* docx-parser.ts 24-33
DocxExtractRawText(value, msgs) ==
    /\ pc = "docx_extractRawText"
    /\ extracted' = [text |-> cleanExtractedText(value), pages |-> 0,
                     messages |-> htmlMsgs \o msgs]
    /\ pc' = "resume"
    /\ UNCHANGED <<file, numPages, pageNum, textParts, htmlMsgs, rawText,
                   source, warnings, result, pdfCalls, docxCalls, parseCalls>>
    /\ UNCHANGED otherThanFile

\* index.ts 40-70: parseResumeFile resumes after the await.
Resume ==
    /\ pc = "resume"
    /\ rawText' = extracted.text
    /\ source' = IF isPDF(file) THEN "pdf" ELSE "docx"
    /\ warnings' = IF isPDF(file)
                   THEN (IF extracted.pages > MaxGoodPages THEN <<PagesWarning>> ELSE <<>>)
                   ELSE extracted.messages
    /\ IF isEmptyContent(rawText')
       THEN /\ result' = Failure(EmptyMsg)
            /\ UNCHANGED parseCalls
       ELSE /\ parseCalls' = parseCalls + 1
            /\ result' = Success(parsedOf(rawText', source', file.name, warnings'))
    /\ pc' = "done"
    /\ UNCHANGED <<file, numPages, pageNum, textParts, htmlMsgs, extracted,
                   pdfCalls, docxCalls>>
    /\ UNCHANGED otherThanFile

FileNext ==
    \/ \E f \in Files : Invoke(f)
    \/ \E e \in Thrown : Throw(e)
    \/ PdfArrayBuffer
    \/ \E n \in 1..MaxPages : PdfGetDocument(n)
    \/ \E throws \in BOOLEAN : PdfGetMetadata(throws)
    \/ PdfGetPage
    \/ \E t \in PageTexts : PdfGetTextContent(t)
    \/ DocxArrayBuffer
    \/ \E m \in MammothMessages : DocxConvertToHtml(m)
    \/ \E v \in DocxValues, m \in MammothMessages : DocxExtractRawText(v, m)
    \/ Resume

(***************************************************************************)
(* Claims about parseResumeFile                                            *)
(***************************************************************************)
\* The file attributes as the claims state them, on the names of FileNames.
ClaimIsLegacy(f) == f.type = MsWordMime \/ f.name \in {NameDoc, NameDocUpper}
ClaimIsPdf(f)    == f.type = PdfMime \/ f.name \in {NamePdf, NamePdfUpper}
ClaimIsDocx(f)   == f.type = DocxMime \/ f.name \in {NameDocx, NameDocxUpper}
ClaimRejected(f) == ClaimIsLegacy(f) \/ (~ClaimIsPdf(f) /\ ~ClaimIsDocx(f))

\* C1: parseResumeFile never rejects: while it runs the promise is pending, and
\* once it has finished the promise is resolved with either {success: true,
\* data, no error} or {success: false, an error string, no data}, also when an
\* await point of parsePDF / parseDOCX threw.
C1_NeverRejects ==
    /\ result.state # "rejected"
    /\ pc \notin {"idle", "done"} => result = Pending
    /\ pc = "done" =>
          /\ result.state = "resolved"
          /\ \/ result.success /\ result.data.present /\ result.error = Absent
             \/ ~result.success /\ ~result.data.present /\ result.error # Absent

\* C1 witness: parsePDF threw in the page loop, after a first page was read.
C1_Witness ==
    /\ pc = "done"
    /\ pdfCalls = 1
    /\ Len(textParts) >= 1
    /\ extracted = NoExtract
    /\ result = Failure("Invalid PDF structure")

\* C2: once the extractor has returned, a text of fewer than 50 characters after
\* trimming (the empty text included) gives the empty-content failure and
\* parseResumeText is not run; a text of 50 trimmed characters or more is parsed.
C2_EmptyContent ==
    (pc = "done" /\ source # "") =>
        IF RunsLen(Trim(rawText)) < 50
        THEN result = Failure(EmptyMsg) /\ parseCalls = 0
        ELSE result.success /\ parseCalls = 1

\* C2 witness: a DOCX text of 49 characters after the cleanup is refused.
C2_Witness ==
    /\ pc = "done"
    /\ source = "docx"
    /\ RunsLen(rawText) = 49
    /\ result = Failure(EmptyMsg)
    /\ parseCalls = 0

\* C3: a legacy DOC file (MIME type application/msword, or a name ending in
\* .doc in any case) gets the legacy-format failure, also when its other
\* attribute is that of a PDF or DOCX; a file that is neither legacy, PDF nor
\* DOCX gets the unsupported-format failure, a different message.
C3_LegacyWins ==
    /\ LegacyMsg # UnsupportedMsg
    /\ (pc # "idle" /\ ClaimIsLegacy(file)) =>
           pc = "done" /\ result = Failure(LegacyMsg)
    /\ (pc # "idle" /\ ~ClaimIsLegacy(file) /\ ~ClaimIsPdf(file) /\ ~ClaimIsDocx(file)) =>
           pc = "done" /\ result = Failure(UnsupportedMsg)

\* C3 witness: a file of MIME type application/pdf named cv.DoC was refused as
\* legacy.
C3_Witness ==
    /\ pc = "done"
    /\ file = [type |-> PdfMime, name |-> NameDocUpper]
    /\ result = Failure(LegacyMsg)

\* C4: a file refused as legacy or unsupported reaches no extractor; an accepted
\* file reaches exactly one of parsePDF / parseDOCX, exactly once.
C4_ExtractOnce ==
    pc # "idle" =>
        IF ClaimRejected(file)
        THEN pdfCalls = 0 /\ docxCalls = 0
        ELSE /\ pdfCalls + docxCalls = 1
             /\ pdfCalls = 1 <=> ClaimIsPdf(file)

\* C4 witness: an unsupported file was refused with no extractor called.
C4_Witness ==
    /\ pc = "done"
    /\ result = Failure(UnsupportedMsg)
    /\ pdfCalls = 0
    /\ docxCalls = 0

(***************************************************************************)
(* Section detector (section-detector.ts), on texts made of whole lines.   *)
(* A text is a sequence of line names; LineChars gives a line's characters.*)
(***************************************************************************)
LExperience == <<"E", "X", "P", "E", "R", "I", "E", "N", "C", "E">>
LPersonalProjects == <<"P", "e", "r", "s", "o", "n", "a", "l", " ", "P", "r", "o", "j", "e", "c", "t", "s">>
LPortfolioLinks == <<"P", "o", "r", "t", "f", "o", "l", "i", "o", " ", "L", "i", "n", "k", "s">>
LJob == <<"E", "n", "g", "i", "n", "e", "e", "r", " ", "a", "t", " ", "A", "c", "m", "e", " ", "I", "n", "c", " ", "|", " ", "J", "a", "n", " ", "2", "0", "2", "0", " ", "-", " ", "P", "r", "e", "s", "e", "n", "t">>
LJobClosed == <<"A", "n", "a", "l", "y", "s", "t", ",", " ", "I", "n", "i", "t", "e", "c", "h", " ", "0", "3", "/", "2", "0", "1", "8", " ", "-", " ", "1", "2", "/", "2", "0", "1", "9">>
LRepo == <<"B", "u", "i", "l", "t", " ", "h", "t", "t", "p", "s", ":", "/", "/", "g", "i", "t", "h", "u", "b", ".", "c", "o", "m", "/", "j", "a", "n", "e", "/", "a", "p", "p">>
LEmpty == <<>>
LSkills == <<" ", " ", "S", "k", "i", "l", "l", "s", " ", " ">>
LSkillList == <<"P", "y", "t", "h", "o", "n", ",", " ", "G", "o", ",", " ", "S", "Q", "L", ",", " ", "R", "u", "s", "t", ",", " ", "J", "a", "v", "a">>

LName == <<"J", "a", "n", "e", " ", "D", "o", "e">>
LNameUpper == <<"J", "A", "N", "E", " ", "D", "O", "E">>
LTitle == <<"S", "o", "f", "t", "w", "a", "r", "e", " ", "E", "n", "g", "i", "n", "e", "e", "r">>
LEmailLine == <<"j", "a", "n", "e", "@", "e", "x", "a", "m", "p", "l", "e", ".", "c", "o", "m">>
LSeniorJob == <<"S", "e", "n", "i", "o", "r", " ", "E", "n", "g", "i", "n", "e", "e", "r", " ", "a", "t", " ", "A", "c", "m", "e", " ", "I", "n", "c", " ", "|", " ", "J", "a", "n", " ", "2", "0", "2", "0", " ", "-", " ", "P", "r", "e", "s", "e", "n", "t">>
LBullet == <<"-", " ", "L", "e", "d", " ", "m", "i", "g", "r", "a", "t", "i", "o", "n", " ", "r", "e", "d", "u", "c", "i", "n", "g", " ", "l", "a", "t", "e", "n", "c", "y", " ", "b", "y", " ", "4", "0", "%">>
LEducation == <<"E", "D", "U", "C", "A", "T", "I", "O", "N">>
LDegree == <<"B", "a", "c", "h", "e", "l", "o", "r", " ", "o", "f", " ", "S", "c", "i", "e", "n", "c", "e", " ", "i", "n", " ", "C", "o", "m", "p", "u", "t", "e", "r", " ", "S", "c", "i", "e", "n", "c", "e">>
LUniversity == <<"S", "t", "a", "t", "e", " ", "U", "n", "i", "v", "e", "r", "s", "i", "t", "y", " ", "2", "0", "1", "6">>
LSkillsHeading == <<"S", "K", "I", "L", "L", "S">>
LThreeSkills == <<"P", "y", "t", "h", "o", "n", ",", " ", "G", "o", ",", " ", "S", "Q", "L">>
LSummaryHeading == <<"S", "U", "M", "M", "A", "R", "Y">>
LSummaryText == <<"T", "e", "n", " ", "y", "e", "a", "r", "s", " ", "o", "f", " ", "w", "o", "r", "k", " ", "o", "n", " ", "p", "a", "y", "m", "e", "n", "t", " ", "s", "y", "s", "t", "e", "m", "s", ",", " ", "d", "a", "t", "a", " ", "p", "i", "p", "e", "l", "i", "n", "e", "s", " ", "a", "n", "d", " ", "t", "o", "o", "l", "i", "n", "g", " ", "f", "o", "r", " ", "b", "a", "n", "k", "s", " ", "a", "n", "d", " ", "i", "n", "s", "u", "r", "e", "r", "s", ".", " ", "W", "r", "o", "t", "e", " ", "t", "h", "e", " ", "b", "i", "l", "l", "i", "n", "g", " ", "p", "l", "a", "t", "f", "o", "r", "m", " ", "o", "f", " ", "a", " ", "l", "a", "r", "g", "e", " ", "r", "e", "t", "a", "i", "l", " ", "b", "a", "n", "k", " ", "a", "n", "d", " ", "m", "o", "v", "e", "d", " ", "i", "t", " ", "t", "o", " ", "t", "h", "e", " ", "c", "l", "o", "u", "d", " ", "w", "i", "t", "h", "o", "u", "t", " ", "d", "o", "w", "n", "t", "i", "m", "e", ".", " ", "S", "p", "e", "a", "k", "s", " ", "a", "t", " ", "m", "e", "e", "t", "u", "p", "s", " ", "a", "b", "o", "u", "t", " ", "t", "e", "s", "t", "i", "n", "g", ",", " ", "o", "b", "s", "e", "r", "v", "a", "b", "i", "l", "i", "t", "y", " ", "a", "n", "d", " ", "t", "h", "e", " ", "c", "o", "s", "t", " ", "o", "f", " ", "s", "l", "o", "w", " ", "b", "u", "i", "l", "d", "s", ",", " ", "a", "n", "d", " ", "m", "e", "n", "t", "o", "r", "s", " ", "n", "e", "w", " ", "h", "i", "r", "e", "s", ".">>
LContact == <<"C", "O", "N", "T", "A", "C", "T">>
LContactLine == <<"j", "a", "n", "e", "@", "e", "x", "a", "m", "p", "l", "e", ".", "c", "o", "m", " ", "|", " ", "5", "5", "5", "-", "0", "1", "0", "-", "0", "1", "9", "9", " ", "|", " ", "h", "t", "t", "p", "s", ":", "/", "/", "j", "a", "n", "e", ".", "d", "e", "v">>
LProjectsHeading == <<"P", "R", "O", "J", "E", "C", "T", "S">>
LTechBullet == <<"-", " ", "B", "u", "i", "l", "t", " ", "w", "i", "t", "h", ":", " ", "G", "o", ",", " ", "S", "Q", "L">>
LCertifications == <<"C", "E", "R", "T", "I", "F", "I", "C", "A", "T", "I", "O", "N", "S">>
LCertificate == <<"C", "K", "A", " ", "(", "C", "N", "C", "F", ")", " ", "2", "0", "2", "1">>

\* The lines of the texts handed to detectSections alone
LineKinds == {"LExperience", "LPersonalProjects", "LPortfolioLinks", "LJob", "LJobClosed",
              "LRepo", "LEmpty", "LSkills", "LSkillList"}

\* The other lines of the resumes handed to parseResumeText
TextLineKinds == {"LName", "LNameUpper", "LTitle", "LEmailLine", "LSeniorJob", "LBullet",
                  "LEducation", "LDegree", "LUniversity", "LSkillsHeading", "LThreeSkills",
                  "LSummaryHeading", "LSummaryText", "LContact", "LContactLine",
                  "LProjectsHeading", "LTechBullet", "LCertifications", "LCertificate"}

AllLineKinds == LineKinds \cup TextLineKinds

LineChars(k) ==
    CASE k = "LExperience" -> LExperience
      [] k = "LPersonalProjects" -> LPersonalProjects
      [] k = "LPortfolioLinks" -> LPortfolioLinks
      [] k = "LJob" -> LJob
      [] k = "LJobClosed" -> LJobClosed
      [] k = "LRepo" -> LRepo
      [] k = "LEmpty" -> LEmpty
      [] k = "LSkills" -> LSkills
      [] k = "LSkillList" -> LSkillList
      [] k = "LName" -> LName
      [] k = "LNameUpper" -> LNameUpper
      [] k = "LTitle" -> LTitle
      [] k = "LEmailLine" -> LEmailLine
      [] k = "LSeniorJob" -> LSeniorJob
      [] k = "LBullet" -> LBullet
      [] k = "LEducation" -> LEducation
      [] k = "LDegree" -> LDegree
      [] k = "LUniversity" -> LUniversity
      [] k = "LSkillsHeading" -> LSkillsHeading
      [] k = "LThreeSkills" -> LThreeSkills
      [] k = "LSummaryHeading" -> LSummaryHeading
      [] k = "LSummaryText" -> LSummaryText
      [] k = "LContact" -> LContact
      [] k = "LContactLine" -> LContactLine
      [] k = "LProjectsHeading" -> LProjectsHeading
      [] k = "LTechBullet" -> LTechBullet
      [] k = "LCertifications" -> LCertifications
      [] k = "LCertificate" -> LCertificate

IsSpaceChar(c) == c \in {" ", "\t", "\r"}

RECURSIVE TrimCharsStart(_)
TrimCharsStart(s) == IF s # <<>> /\ IsSpaceChar(Head(s)) THEN TrimCharsStart(Tail(s)) ELSE s

RECURSIVE TrimCharsEnd(_)
TrimCharsEnd(s) ==
    IF s # <<>> /\ IsSpaceChar(s[Len(s)]) THEN TrimCharsEnd(SubSeq(s, 1, Len(s) - 1)) ELSE s

\* String.prototype.trim on characters
TrimChars(s) == TrimCharsEnd(TrimCharsStart(s))

\* The first position >= pos of s that holds no white space (the reach of \s*).
RECURSIVE SkipSpaces(_, _)
SkipSpaces(s, pos) ==
    IF pos <= Len(s) /\ IsSpaceChar(s[pos]) THEN SkipSpaces(s, pos + 1) ELSE pos

\* s, from position pos, reads words[1] \s* words[2] \s* ... (a heading
\* alternative such as work\s*experience; what follows is not looked at).
RECURSIVE MatchWordsAt(_, _, _)
MatchWordsAt(s, pos, words) ==
    IF words = <<>> THEN TRUE
    ELSE LET w == Head(words)
         IN  /\ pos + Len(w) - 1 <= Len(s)
             /\ SubSeq(s, pos, pos + Len(w) - 1) = w
             /\ MatchWordsAt(s, SkipSpaces(s, pos + Len(w)), Tail(words))

\* SECTION_PATTERNS, in the order of Object.entries. Each heading regex is
\* ^(a1|a2|...) with flags im; an alternative is kept as its mandatory words,
\* \s* between them (optional tails such as (rmation)? or s? do not change
\* whether the line matches).
SECTION_PATTERNS ==
    <<
      [type |-> "contact",
       alts |-> {<<<<"c", "o", "n", "t", "a", "c", "t">>>>,
                 <<<<"p", "e", "r", "s", "o", "n", "a", "l">>>>,
                 <<<<"a", "d", "d", "r", "e", "s", "s">>>>,
                 <<<<"p", "h", "o", "n", "e">>>>,
                 <<<<"e", "m", "a", "i", "l">>>>,
                 <<<<"l", "o", "c", "a", "t", "i", "o", "n">>>>}],
      [type |-> "summary",
       alts |-> {<<<<"p", "r", "o", "f", "e", "s", "s", "i", "o", "n", "a", "l">>, <<"s", "u", "m", "m", "a", "r", "y">>>>,
                 <<<<"s", "u", "m", "m", "a", "r", "y">>>>,
                 <<<<"p", "r", "o", "f", "i", "l", "e">>>>,
                 <<<<"o", "b", "j", "e", "c", "t", "i", "v", "e">>>>,
                 <<<<"a", "b", "o", "u", "t">>, <<"m", "e">>>>,
                 <<<<"c", "a", "r", "e", "e", "r">>, <<"o", "b", "j", "e", "c", "t", "i", "v", "e">>>>,
                 <<<<"e", "x", "e", "c", "u", "t", "i", "v", "e">>, <<"s", "u", "m", "m", "a", "r", "y">>>>,
                 <<<<"c", "a", "r", "e", "e", "r">>, <<"s", "u", "m", "m", "a", "r", "y">>>>,
                 <<<<"p", "e", "r", "s", "o", "n", "a", "l">>, <<"s", "t", "a", "t", "e", "m", "e", "n", "t">>>>}],
      [type |-> "experience",
       alts |-> {<<<<"p", "r", "o", "f", "e", "s", "s", "i", "o", "n", "a", "l">>, <<"e", "x", "p", "e", "r", "i", "e", "n", "c", "e">>>>,
                 <<<<"w", "o", "r", "k">>, <<"e", "x", "p", "e", "r", "i", "e", "n", "c", "e">>>>,
                 <<<<"e", "x", "p", "e", "r", "i", "e", "n", "c", "e">>>>,
                 <<<<"e", "m", "p", "l", "o", "y", "m", "e", "n", "t">>>>,
                 <<<<"w", "o", "r", "k">>, <<"h", "i", "s", "t", "o", "r", "y">>>>,
                 <<<<"c", "a", "r", "e", "e", "r">>, <<"h", "i", "s", "t", "o", "r", "y">>>>,
                 <<<<"r", "e", "l", "e", "v", "a", "n", "t">>, <<"e", "x", "p", "e", "r", "i", "e", "n", "c", "e">>>>}],
      [type |-> "education",
       alts |-> {<<<<"e", "d", "u", "c", "a", "t", "i", "o", "n">>>>,
                 <<<<"a", "c", "a", "d", "e", "m", "i", "c">>>>,
                 <<<<"e", "d", "u", "c", "a", "t", "i", "o", "n", "a", "l">>, <<"b", "a", "c", "k", "g", "r", "o", "u", "n", "d">>>>,
                 <<<<"q", "u", "a", "l", "i", "f", "i", "c", "a", "t", "i", "o", "n", "s">>>>,
                 <<<<"d", "e", "g", "r", "e", "e">>>>}],
      [type |-> "skills",
       alts |-> {<<<<"s", "k", "i", "l", "l", "s">>>>,
                 <<<<"t", "e", "c", "h", "n", "i", "c", "a", "l">>, <<"s", "k", "i", "l", "l", "s">>>>,
                 <<<<"c", "o", "r", "e">>, <<"c", "o", "m", "p", "e", "t", "e", "n", "c", "i", "e", "s">>>>,
                 <<<<"c", "o", "m", "p", "e", "t", "e", "n", "c", "i", "e", "s">>>>,
                 <<<<"a", "r", "e", "a">>, <<"o", "f">>, <<"e", "x", "p", "e", "r", "t", "i", "s", "e">>>>,
                 <<<<"a", "r", "e", "a", "s">>, <<"o", "f">>, <<"e", "x", "p", "e", "r", "t", "i", "s", "e">>>>,
                 <<<<"k", "e", "y">>, <<"s", "k", "i", "l", "l", "s">>>>,
                 <<<<"p", "r", "o", "f", "i", "c", "i", "e", "n", "c", "i", "e", "s">>>>,
                 <<<<"t", "e", "c", "h", "n", "o", "l", "o", "g", "i", "e", "s">>>>}],
      [type |-> "projects",
       alts |-> {<<<<"p", "r", "o", "j", "e", "c", "t">>>>,
                 <<<<"k", "e", "y">>, <<"p", "r", "o", "j", "e", "c", "t">>>>,
                 <<<<"s", "e", "l", "e", "c", "t", "e", "d">>, <<"p", "r", "o", "j", "e", "c", "t">>>>,
                 <<<<"p", "e", "r", "s", "o", "n", "a", "l">>, <<"p", "r", "o", "j", "e", "c", "t">>>>,
                 <<<<"p", "o", "r", "t", "f", "o", "l", "i", "o">>>>,
                 <<<<"n", "o", "t", "a", "b", "l", "e">>, <<"p", "r", "o", "j", "e", "c", "t">>>>}],
      [type |-> "certifications",
       alts |-> {<<<<"c", "e", "r", "t", "i", "f", "i", "c", "a", "t", "i", "o", "n">>>>,
                 <<<<"l", "i", "c", "e", "n", "s", "e">>>>,
                 <<<<"p", "r", "o", "f", "e", "s", "s", "i", "o", "n", "a", "l">>, <<"c", "e", "r", "t", "i", "f", "i", "c", "a", "t", "i", "o", "n">>>>,
                 <<<<"c", "r", "e", "d", "e", "n", "t", "i", "a", "l">>>>,
                 <<<<"a", "c", "c", "r", "e", "d", "i", "t", "a", "t", "i", "o", "n">>>>}],
      [type |-> "links",
       alts |-> {<<<<"l", "i", "n", "k">>>>,
                 <<<<"o", "n", "l", "i", "n", "e">>, <<"p", "r", "o", "f", "i", "l", "e">>>>,
                 <<<<"s", "o", "c", "i", "a", "l">>, <<"m", "e", "d", "i", "a">>>>,
                 <<<<"w", "e", "b">>, <<"p", "r", "e", "s", "e", "n", "c", "e">>>>,
                 <<<<"p", "r", "o", "f", "e", "s", "s", "i", "o", "n", "a", "l">>, <<"l", "i", "n", "k">>>>,
                 <<<<"p", "o", "r", "t", "f", "o", "l", "i", "o">>, <<"l", "i", "n", "k">>>>}],
      [type |-> "unknown", alts |-> {}]
    >>

\* pattern.test(line) for some pattern of the section type at index t
MatchesType(t, line) ==
    \E a \in SECTION_PATTERNS[t].alts : MatchWordsAt(ToLowerCase(line), 1, a)

\* The section types whose heading patterns the trimmed line matches, in
\* table order, per line name (a constant table, one evaluation per line).
HeaderTypesOf ==
    [k \in AllLineKinds |->
        LET line == TrimChars(LineChars(k))
        IN  SelectSeq([t \in 1..Len(SECTION_PATTERNS) |-> SECTION_PATTERNS[t].type],
                      LAMBDA ty : \E t \in 1..Len(SECTION_PATTERNS) :
                                     /\ SECTION_PATTERNS[t].type = ty
                                     /\ ty # "unknown"
                                     /\ MatchesType(t, line))]

LineLen == [k \in AllLineKinds |-> Len(LineChars(k))]

WordChars == {"a", "b", "c", "d", "e", "f", "g", "h", "i", "j", "k", "l", "m", "n", "o",
              "p", "q", "r", "s", "t", "u", "v", "w", "x", "y", "z", "0", "1", "2", "3",
              "4", "5", "6", "7", "8", "9", "_"}

\* The maximal runs of word characters of s (what \b...\b can match), s in lower case.
RECURSIVE TokensFrom(_, _, _)
TokensFrom(s, pos, cur) ==
    IF pos > Len(s) THEN (IF cur = <<>> THEN {} ELSE {cur})
    ELSE IF s[pos] \in WordChars THEN TokensFrom(s, pos + 1, Append(cur, s[pos]))
    ELSE (IF cur = <<>> THEN {} ELSE {cur}) \cup TokensFrom(s, pos + 1, <<>>)

LineWords == [k \in AllLineKinds |-> TokensFrom(ToLowerCase(LineChars(k)), 1, <<>>)]

LineCommas == [k \in AllLineKinds |-> Cardinality({i \in 1..Len(LineChars(k)) : LineChars(k)[i] = ","})]

Match(s, e) == [s |-> s, e |-> e]

\* The matches of DATE_PATTERNS[p] in each line, as [start, end) offsets.
\*   LJob       "Engineer at Acme Inc | Jan 2020 - Present": pattern 1 matches
\*              "Jan 2020 - Present", pattern 2 matches "2020 - Present"
\*   LJobClosed "Analyst, Initech 03/2018 - 12/2019": pattern 3 matches
\*              "03/2018 - 12/2019"
\*   LSeniorJob "Senior Engineer at Acme Inc | Jan 2020 - Present": as LJob
DateMatches(k, p) ==
    CASE k = "LJob" /\ p = 1 -> <<Match(23, 41)>>
      [] k = "LJob" /\ p = 2 -> <<Match(27, 41)>>
      [] k = "LJobClosed" /\ p = 3 -> <<Match(17, 34)>>
      [] k = "LSeniorJob" /\ p = 1 -> <<Match(30, 48)>>
      [] k = "LSeniorJob" /\ p = 2 -> <<Match(34, 48)>>
      [] OTHER -> <<>>

\* The matches of URL_PATTERN: "https://github.com/jane/app" in LRepo,
\* "https://jane.dev" in LContactLine.
UrlMatches(k) ==
    CASE k = "LRepo" -> <<Match(6, 33)>>
      [] k = "LContactLine" -> <<Match(34, 50)>>
      [] OTHER -> <<>>

\* The matches of GITHUB_PATTERN: "github.com/jane" in LRepo.
GithubMatches(k) == IF k = "LRepo" THEN <<Match(14, 29)>> ELSE <<>>

(***************************************************************************)
(* The module-level RegExp objects with the g flag, used through test():   *)
(* DATE_PATTERNS[1..3], URL_PATTERN, GITHUB_PATTERN. Their lastIndex is    *)
(* state that outlives a call.                                             *)
(***************************************************************************)
ReInit == [date |-> <<0, 0, 0>>, url |-> 0, github |-> 0]

\* lines.slice(i, j + 1).join('\n'), as characters
RECURSIVE JoinLines(_)
JoinLines(ks) ==
    IF ks = <<>> THEN <<>>
    ELSE IF Len(ks) = 1 THEN LineChars(ks[1])
    ELSE LineChars(ks[1]) \o <<"\n">> \o JoinLines(Tail(ks))

\* content.length
RECURSIVE ContentLen(_)
ContentLen(ks) ==
    IF ks = <<>> THEN 0
    ELSE IF Len(ks) = 1 THEN LineLen[ks[1]]
    ELSE LineLen[ks[1]] + 1 + ContentLen(Tail(ks))

Shift(ms, d) == [i \in 1..Len(ms) |-> Match(ms[i].s + d, ms[i].e + d)]

\* The matches of a pattern in a content, from the matches in its lines.
\* The matches in a line of the pattern named pat.
LineMatches(k, pat) ==
    CASE pat = "url" -> UrlMatches(k)
      [] pat = "github" -> GithubMatches(k)
      [] pat = "date1" -> DateMatches(k, 1)
      [] pat = "date2" -> DateMatches(k, 2)
      [] pat = "date3" -> DateMatches(k, 3)

RECURSIVE ContentMatches(_, _, _)
ContentMatches(ks, off, pat) ==
    IF ks = <<>> THEN <<>>
    ELSE Shift(LineMatches(ks[1], pat), off)
           \o ContentMatches(Tail(ks), off + LineLen[ks[1]] + 1, pat)

\* RegExp.prototype.test of a g-flagged pattern whose matches in the string
\* are ms (ascending), the string n long, lastIndex being li: the search
\* starts at li; a match sets lastIndex to its end, a failure to 0.
TestG(ms, n, li) ==
    LET later == SelectSeq(ms, LAMBDA m : m.s >= li)
    IN  IF li > n \/ later = <<>>
        THEN [ok |-> FALSE, li |-> 0]
        ELSE [ok |-> TRUE, li |-> later[1].e]


\* DATE_PATTERNS.some((p) => p.test(content)), from pattern p on
RECURSIVE DateSome(_, _, _)
DateSome(ks, p, re) ==
    IF p > 3 THEN [ok |-> FALSE, re |-> re]
    ELSE LET r == TestG(ContentMatches(ks, 0, <<"date1", "date2", "date3">>[p]),
                              ContentLen(ks), re.date[p])
             re2 == [re EXCEPT !.date[p] = r.li]
         IN  IF r.ok THEN [ok |-> TRUE, re |-> re2] ELSE DateSome(ks, p + 1, re2)

\* URL_PATTERN.test(content) || GITHUB_PATTERN.test(content)
UrlOrGithub(ks, re) ==
    LET u == TestG(ContentMatches(ks, 0, "url"), ContentLen(ks), re.url)
        re2 == [re EXCEPT !.url = u.li]
        g == TestG(ContentMatches(ks, 0, "github"), ContentLen(ks), re2.github)
    IN  IF u.ok THEN [ok |-> TRUE, re |-> re2]
        ELSE [ok |-> g.ok, re |-> [re2 EXCEPT !.github = g.li]]

ContentWords(ks) == UNION {LineWords[ks[i]] : i \in 1..Len(ks)}

CompanyWords == {<<"i", "n", "c">>, <<"l", "l", "c">>, <<"l", "t", "d">>, <<"c", "o", "r", "p">>,
                 <<"c", "o", "m", "p", "a", "n", "y">>,
                 <<"t", "e", "c", "h", "n", "o", "l", "o", "g", "i", "e", "s">>,
                 <<"s", "o", "l", "u", "t", "i", "o", "n", "s">>}

DegreeWords == {<<"b", "a", "c", "h", "e", "l", "o", "r">>, <<"m", "a", "s", "t", "e", "r">>,
                <<"p", "h", "d">>, <<"m", "b", "a">>, <<"b", "s">>, <<"b", "a">>, <<"m", "s">>,
                <<"m", "a">>, <<"d", "e", "g", "r", "e", "e">>,
                <<"u", "n", "i", "v", "e", "r", "s", "i", "t", "y">>,
                <<"c", "o", "l", "l", "e", "g", "e">>,
                <<"i", "n", "s", "t", "i", "t", "u", "t", "e">>}

ProficiencyWords == {<<"p", "r", "o", "f", "i", "c", "i", "e", "n", "t">>,
                     <<"e", "x", "p", "e", "r", "i", "e", "n", "c", "e", "d">>,
                     <<"e", "x", "p", "e", "r", "t">>,
                     <<"a", "d", "v", "a", "n", "c", "e", "d">>,
                     <<"i", "n", "t", "e", "r", "m", "e", "d", "i", "a", "t", "e">>}

CertificationWords == {<<"c", "e", "r", "t", "i", "f", "i", "e", "d">>,
                       <<"c", "e", "r", "t", "i", "f", "i", "c", "a", "t", "e">>,
                       <<"c", "e", "r", "t", "i", "f", "i", "c", "a", "t", "i", "o", "n">>,
                       <<"l", "i", "c", "e", "n", "s", "e">>,
                       <<"c", "r", "e", "d", "e", "n", "t", "i", "a", "l">>}

\* content.split(/\s+/).length: one more than the number of white-space runs
SplitWsCount(s) ==
    1 + Cardinality({i \in 1..Len(s) :
                        /\ (IsSpaceChar(s[i]) \/ s[i] = "\n")
                        /\ (i = 1 \/ ~(IsSpaceChar(s[i - 1]) \/ s[i - 1] = "\n"))})

BaseConfidence == 70

\* calculateConfidence(sectionType, content): the confidence and the RegExp
\* state it leaves.
calculateConfidence(ty, ks, re) ==
    CASE ty = "experience" ->
            LET d == DateSome(ks, 1, re)
            IN  [c |-> Min(BaseConfidence + (IF d.ok THEN 15 ELSE 0)
                             + (IF ContentWords(ks) \cap CompanyWords # {} THEN 10 ELSE 0), 100),
                 re |-> d.re]
      [] ty = "education" ->
            [c |-> Min(BaseConfidence
                         + (IF ContentWords(ks) \cap DegreeWords # {} THEN 20 ELSE 0), 100),
             re |-> re]
      [] ty = "skills" ->
            [c |-> Min(BaseConfidence
                         + (IF SumSeq([i \in 1..Len(ks) |-> LineCommas[ks[i]]]) > 3
                            THEN 15 ELSE 0)
                         + (IF ContentWords(ks) \cap ProficiencyWords # {} THEN 10 ELSE 0), 100),
             re |-> re]
      [] ty = "certifications" ->
            [c |-> Min(BaseConfidence
                         + (IF ContentWords(ks) \cap CertificationWords # {} THEN 20 ELSE 0), 100),
             re |-> re]
      [] ty = "projects" ->
            LET u == UrlOrGithub(ks, re)
            IN  [c |-> Min(BaseConfidence + (IF u.ok THEN 15 ELSE 0), 100), re |-> u.re]
      [] ty = "summary" ->
            LET wordCount == SplitWsCount(JoinLines(ks))
            IN  [c |-> Min(BaseConfidence
                             + (IF wordCount > 20 /\ wordCount < 200 THEN 15 ELSE 0), 100),
                 re |-> re]
      [] OTHER -> [c |-> Min(BaseConfidence, 100), re |-> re]

(***************************************************************************)
(* detectSections                                                          *)
(***************************************************************************)
SectionMatch(ty, st, en, content, conf) ==
    [type |-> ty, startIndex |-> st, endIndex |-> en, content |-> content, confidence |-> conf]

IsHeaderLine(k) == HeaderTypesOf[k] # <<>>

\* findSectionEnd(lines, startLine): the line before the next heading line, or
\* the last line (lines are numbered from 1 here).
findSectionEnd(text, startLine) ==
    LET next == {j \in (startLine + 1)..Len(text) : IsHeaderLine(text[j])}
    IN  IF next = {} THEN Len(text)
        ELSE (CHOOSE j \in next : \A j2 \in next : j <= j2) - 1

\* currentIndex when the loop reaches line i
LineStart(text, i) == SumSeq([m \in 1..(i - 1) |-> LineLen[text[m]] + 1])

\* The loop of detectSections (72-104): line i, the section types tys still to
\* try on it, the RegExp state re, the matches pushed so far.
RECURSIVE DetectLoop(_, _, _, _, _)
DetectLoop(text, i, tys, re, acc) ==
    IF i > Len(text) THEN [sections |-> acc, re |-> re]
    ELSE IF tys = <<>>
         THEN IF i = Len(text) THEN [sections |-> acc, re |-> re]
              ELSE DetectLoop(text, i + 1, HeaderTypesOf[text[i + 1]], re, acc)
    ELSE LET content == SubSeq(text, i, findSectionEnd(text, i))
             cf == calculateConfidence(Head(tys), content, re)
             m == SectionMatch(Head(tys), LineStart(text, i),
                               LineStart(text, i) + ContentLen(content), content, cf.c)
         IN  DetectLoop(text, i, Tail(tys), cf.re, Append(acc, m))

\* sections.sort((a, b) => a.startIndex - b.startIndex): a stable sort
RECURSIVE InsertByStart(_, _)
InsertByStart(sorted, m) ==
    IF sorted = <<>> THEN <<m>>
    ELSE IF sorted[Len(sorted)].startIndex <= m.startIndex THEN Append(sorted, m)
    ELSE Append(InsertByStart(SubSeq(sorted, 1, Len(sorted) - 1), m), sorted[Len(sorted)])

RECURSIVE SortByStart(_)
SortByStart(ms) ==
    IF ms = <<>> THEN <<>>
    ELSE InsertByStart(SortByStart(SubSeq(ms, 1, Len(ms) - 1)), ms[Len(ms)])

\* The loop of resolveOverlaps (185-197)
RECURSIVE ResolveLoop(_, _, _)
ResolveLoop(sections, i, resolved) ==
    IF i > Len(sections) THEN resolved
    ELSE LET current == sections[i]
             previous == resolved[Len(resolved)]
         IN  IF current.startIndex > previous.endIndex
             THEN ResolveLoop(sections, i + 1, Append(resolved, current))
             ELSE IF current.confidence > previous.confidence
             THEN ResolveLoop(sections, i + 1, [resolved EXCEPT ![Len(resolved)] = current])
             ELSE ResolveLoop(sections, i + 1, resolved)

\* The loop with the confidence test >= instead of >.
RECURSIVE ResolveLoopTies(_, _, _)
ResolveLoopTies(sections, i, resolved) ==
    IF i > Len(sections) THEN resolved
    ELSE LET current == sections[i]
             previous == resolved[Len(resolved)]
         IN  IF current.startIndex > previous.endIndex
             THEN ResolveLoopTies(sections, i + 1, Append(resolved, current))
             ELSE IF current.confidence >= previous.confidence
             THEN ResolveLoopTies(sections, i + 1, [resolved EXCEPT ![Len(resolved)] = current])
             ELSE ResolveLoopTies(sections, i + 1, resolved)

\* resolveOverlaps replacing the kept match on equal confidence too.
resolveOverlapsTies(sections) ==
    IF Len(sections) <= 1 THEN sections
    ELSE ResolveLoopTies(sections, 2, <<sections[1]>>)

\* resolveOverlaps returning every match.
resolveOverlapsKeepAll(sections) == sections

\* resolveOverlaps(sections)
resolveOverlaps(sections) ==
    IF Len(sections) <= 1 THEN sections
    ELSE ResolveLoop(sections, 2, <<sections[1]>>)

\* detectSections(text) under the RegExp state re: the list returned and the
\* RegExp state left behind.
detectSections(text, re) ==
    LET r == DetectLoop(text, 1, HeaderTypesOf[text[1]], re, <<>>)
    IN  [sections |-> resolveOverlaps(SortByStart(r.sections)), re |-> r.re]

(***************************************************************************)
(* Calls of the section detector                                           *)
(***************************************************************************)
MaxLines == 3

SecInit ==
    /\ secText = <<"LEmpty">>
    /\ lastIndex = ReInit
    /\ firstSections = <<>>
    /\ lastSections = <<>>
    /\ detectCount = 0

\* The caller's text gets one more line ("\n" and the line).
AppendLine(k) ==
    /\ Len(secText) < MaxLines
    /\ secText' = Append(secText, k)
    /\ firstSections' = <<>>
    /\ lastSections' = <<>>
    /\ detectCount' = 0
    /\ UNCHANGED lastIndex
    /\ UNCHANGED otherThanSec

\* detectSections(secText)
CallDetectSections ==
    /\ LET r == detectSections(secText, lastIndex)
       IN  /\ lastIndex' = r.re
           /\ lastSections' = r.sections
           /\ firstSections' = IF detectCount = 0 THEN r.sections ELSE firstSections
    /\ detectCount' = Min(detectCount + 1, 2)
    /\ UNCHANGED secText
    /\ UNCHANGED otherThanSec

\* parseResumeText(secText, ...) (index.ts 90-96): detectSections, then
\* extractContactInfo, whose text.match(URL_PATTERN) and
\* text.match(GITHUB_PATTERN) leave lastIndex at 0.
CallParseResumeText ==
    /\ LET r == detectSections(secText, lastIndex)
       IN  lastIndex' = [r.re EXCEPT !.url = 0, !.github = 0]
    /\ UNCHANGED <<secText, firstSections, lastSections, detectCount>>
    /\ UNCHANGED otherThanSec

SecNext ==
    \/ \E k \in LineKinds : AppendLine(k)
    \/ CallDetectSections
    \/ CallParseResumeText

(***************************************************************************)
(* resolveOverlaps on lists sorted by startIndex                           *)
(***************************************************************************)
MaxMatches == 3
MaxOffset  == 2

Confidences == {60, 80}

OvInit ==
    /\ ovInput = <<>>
    /\ ovOutput = <<>>
    /\ ovDone = FALSE

\* One more match, not starting before the last one (the list stays sorted as
\* sections.sort leaves it).
OvAppend(ty, st, en, conf) ==
    /\ Len(ovInput) < MaxMatches
    /\ st <= en
    /\ IF Len(ovInput) = 0 THEN TRUE ELSE ovInput[Len(ovInput)].startIndex <= st
    /\ ovInput' = Append(ovInput, SectionMatch(ty, st, en, <<>>, conf))
    /\ ovOutput' = <<>>
    /\ ovDone' = FALSE
    /\ UNCHANGED otherThanOv

OvResolve ==
    /\ ~ovDone
    /\ ovOutput' = resolveOverlaps(ovInput)
    /\ ovDone' = TRUE
    /\ UNCHANGED ovInput
    /\ UNCHANGED otherThanOv

\* The resolved list is handed to resolveOverlaps again.
OvFeedBack ==
    /\ ovDone
    /\ ovInput' = ovOutput
    /\ ovOutput' = <<>>
    /\ ovDone' = FALSE
    /\ UNCHANGED otherThanOv

OvNext ==
    \/ \E ty \in {"contact", "projects"}, st \in 0..MaxOffset, en \in 0..MaxOffset,
          conf \in Confidences : OvAppend(ty, st, en, conf)
    \/ OvResolve
    \/ OvFeedBack

(***************************************************************************)
(* ATS scoring engine (src/lib/template-context.tsx 85-861).  Strings    *)
(* are sequences of characters.                                            *)
(***************************************************************************)
\* STOP_WORDS: the words extractKeywords leaves out
STOP_WORDS == {
    <<"a">>, <<"a", "n">>, <<"a", "n", "d">>, <<"a", "r", "e">>, <<"a", "s">>, <<"a", "t">>,
    <<"b", "e">>, <<"b", "y">>, <<"f", "o", "r">>, <<"f", "r", "o", "m">>, <<"h", "a", "s">>,
    <<"h", "a", "v", "e">>, <<"i", "n">>, <<"i", "s">>, <<"i", "t">>, <<"o", "f">>, <<"o", "n">>,
    <<"o", "r">>, <<"t", "h", "a", "t">>, <<"t", "h", "e">>, <<"t", "o">>, <<"w", "a", "s">>,
    <<"w", "e", "r", "e">>, <<"w", "i", "l", "l">>, <<"w", "i", "t", "h">>, <<"y", "o", "u">>,
    <<"y", "o", "u", "r">>, <<"w", "e">>, <<"o", "u", "r">>, <<"t", "h", "e", "i", "r">>,
    <<"t", "h", "e", "y">>, <<"t", "h", "i", "s">>, <<"t", "h", "e", "s", "e">>,
    <<"t", "h", "o", "s", "e">>, <<"c", "a", "n">>, <<"c", "o", "u", "l", "d">>,
    <<"w", "o", "u", "l", "d">>, <<"s", "h", "o", "u", "l", "d">>, <<"m", "a", "y">>,
    <<"m", "i", "g", "h", "t">>, <<"m", "u", "s", "t">>, <<"s", "h", "a", "l", "l">>,
    <<"n", "e", "e", "d">>, <<"a", "b", "o", "u", "t">>, <<"a", "b", "o", "v", "e">>,
    <<"a", "f", "t", "e", "r">>, <<"b", "e", "f", "o", "r", "e">>,
    <<"b", "e", "t", "w", "e", "e", "n">>, <<"i", "n", "t", "o">>,
    <<"t", "h", "r", "o", "u", "g", "h">>, <<"d", "u", "r", "i", "n", "g">>,
    <<"u", "n", "d", "e", "r">>, <<"a", "g", "a", "i", "n">>,
    <<"f", "u", "r", "t", "h", "e", "r">>, <<"t", "h", "e", "n">>, <<"o", "n", "c", "e">>,
    <<"h", "e", "r", "e">>, <<"t", "h", "e", "r", "e">>, <<"w", "h", "e", "n">>,
    <<"w", "h", "e", "r", "e">>, <<"w", "h", "y">>, <<"h", "o", "w">>, <<"a", "l", "l">>,
    <<"e", "a", "c", "h">>, <<"f", "e", "w">>, <<"m", "o", "r", "e">>, <<"m", "o", "s", "t">>,
    <<"o", "t", "h", "e", "r">>, <<"s", "o", "m", "e">>, <<"s", "u", "c", "h">>, <<"n", "o">>,
    <<"n", "o", "r">>, <<"n", "o", "t">>, <<"o", "n", "l", "y">>, <<"o", "w", "n">>,
    <<"s", "a", "m", "e">>, <<"s", "o">>, <<"t", "h", "a", "n">>, <<"t", "o", "o">>,
    <<"v", "e", "r", "y">>, <<"j", "u", "s", "t">>, <<"b", "u", "t">>, <<"i", "f">>,
    <<"b", "e", "c", "a", "u", "s", "e">>, <<"u", "n", "t", "i", "l">>,
    <<"w", "h", "i", "l", "e">>, <<"a", "l", "s", "o">>, <<"b", "o", "t", "h">>,
    <<"e", "i", "t", "h", "e", "r">>, <<"n", "e", "i", "t", "h", "e", "r">>,
    <<"e", "x", "p", "e", "r", "i", "e", "n", "c", "e">>, <<"w", "o", "r", "k">>,
    <<"w", "o", "r", "k", "i", "n", "g">>, <<"w", "o", "r", "k", "e", "d">>, <<"j", "o", "b">>,
    <<"p", "o", "s", "i", "t", "i", "o", "n">>, <<"r", "o", "l", "e">>, <<"t", "e", "a", "m">>,
    <<"c", "o", "m", "p", "a", "n", "y">>, <<"y", "e", "a", "r", "s">>, <<"y", "e", "a", "r">>,
    <<"e", "t", "c">>, <<"i", "n", "c", "l", "u", "d", "i", "n", "g">>,
    <<"i", "n", "c", "l", "u", "d", "e">>, <<"i", "n", "c", "l", "u", "d", "e", "s">>
}

\* TECH_KEYWORDS: the words and two-word phrases extractKeywords puts first
TECH_KEYWORDS == {
    <<"j", "a", "v", "a", "s", "c", "r", "i", "p", "t">>,
    <<"t", "y", "p", "e", "s", "c", "r", "i", "p", "t">>, <<"p", "y", "t", "h", "o", "n">>,
    <<"j", "a", "v", "a">>, <<"c", "+", "+">>, <<"c", "#">>, <<"r", "u", "b", "y">>, <<"g", "o">>,
    <<"r", "u", "s", "t">>, <<"s", "w", "i", "f", "t">>, <<"k", "o", "t", "l", "i", "n">>,
    <<"p", "h", "p">>, <<"s", "c", "a", "l", "a">>, <<"r">>, <<"m", "a", "t", "l", "a", "b">>,
    <<"s", "q", "l">>, <<"h", "t", "m", "l">>, <<"c", "s", "s">>, <<"s", "a", "s", "s">>,
    <<"r", "e", "a", "c", "t">>, <<"a", "n", "g", "u", "l", "a", "r">>, <<"v", "u", "e">>,
    <<"n", "o", "d", "e">>, <<"e", "x", "p", "r", "e", "s", "s">>,
    <<"d", "j", "a", "n", "g", "o">>, <<"f", "l", "a", "s", "k">>,
    <<"s", "p", "r", "i", "n", "g">>, <<"r", "a", "i", "l", "s">>,
    <<"l", "a", "r", "a", "v", "e", "l">>, <<"n", "e", "x", "t", "j", "s">>,
    <<"g", "a", "t", "s", "b", "y">>, <<"n", "u", "x", "t">>, <<"s", "v", "e", "l", "t", "e">>,
    <<"j", "q", "u", "e", "r", "y">>, <<"b", "o", "o", "t", "s", "t", "r", "a", "p">>,
    <<"t", "a", "i", "l", "w", "i", "n", "d">>, <<"r", "e", "d", "u", "x">>,
    <<"g", "r", "a", "p", "h", "q", "l">>, <<"r", "e", "s", "t">>, <<"a", "p", "i">>,
    <<"m", "i", "c", "r", "o", "s", "e", "r", "v", "i", "c", "e", "s">>, <<"a", "w", "s">>,
    <<"a", "z", "u", "r", "e">>, <<"g", "c", "p">>, <<"d", "o", "c", "k", "e", "r">>,
    <<"k", "u", "b", "e", "r", "n", "e", "t", "e", "s">>, <<"j", "e", "n", "k", "i", "n", "s">>,
    <<"t", "e", "r", "r", "a", "f", "o", "r", "m">>, <<"a", "n", "s", "i", "b", "l", "e">>,
    <<"c", "i", "/", "c", "d">>, <<"d", "e", "v", "o", "p", "s">>, <<"l", "i", "n", "u", "x">>,
    <<"u", "n", "i", "x">>, <<"g", "i", "t">>, <<"g", "i", "t", "h", "u", "b">>,
    <<"g", "i", "t", "l", "a", "b">>, <<"b", "i", "t", "b", "u", "c", "k", "e", "t">>,
    <<"m", "y", "s", "q", "l">>, <<"p", "o", "s", "t", "g", "r", "e", "s", "q", "l">>,
    <<"m", "o", "n", "g", "o", "d", "b">>, <<"r", "e", "d", "i", "s">>,
    <<"e", "l", "a", "s", "t", "i", "c", "s", "e", "a", "r", "c", "h">>,
    <<"d", "y", "n", "a", "m", "o", "d", "b">>, <<"o", "r", "a", "c", "l", "e">>,
    <<"s", "q", "l", "i", "t", "e">>, <<"c", "a", "s", "s", "a", "n", "d", "r", "a">>,
    <<"f", "i", "r", "e", "b", "a", "s", "e">>, <<"s", "u", "p", "a", "b", "a", "s", "e">>,
    <<"m", "a", "c", "h", "i", "n", "e", " ", "l", "e", "a", "r", "n", "i", "n", "g">>,
    <<"d", "e", "e", "p", " ", "l", "e", "a", "r", "n", "i", "n", "g">>, <<"a", "i">>,
    <<"t", "e", "n", "s", "o", "r", "f", "l", "o", "w">>, <<"p", "y", "t", "o", "r", "c", "h">>,
    <<"p", "a", "n", "d", "a", "s">>, <<"n", "u", "m", "p", "y">>,
    <<"s", "c", "i", "k", "i", "t", "-", "l", "e", "a", "r", "n">>, <<"n", "l", "p">>,
    <<"c", "o", "m", "p", "u", "t", "e", "r", " ", "v", "i", "s", "i", "o", "n">>,
    <<"d", "a", "t", "a", " ", "s", "c", "i", "e", "n", "c", "e">>,
    <<"a", "n", "a", "l", "y", "t", "i", "c", "s">>,
    <<"l", "e", "a", "d", "e", "r", "s", "h", "i", "p">>,
    <<"c", "o", "m", "m", "u", "n", "i", "c", "a", "t", "i", "o", "n">>,
    <<"c", "o", "l", "l", "a", "b", "o", "r", "a", "t", "i", "o", "n">>,
    <<"p", "r", "o", "b", "l", "e", "m", "-", "s", "o", "l", "v", "i", "n", "g">>,
    <<"a", "n", "a", "l", "y", "t", "i", "c", "a", "l">>,
    <<"s", "t", "r", "a", "t", "e", "g", "i", "c">>, <<"a", "g", "i", "l", "e">>,
    <<"s", "c", "r", "u", "m">>, <<"k", "a", "n", "b", "a", "n">>,
    <<"p", "r", "o", "j", "e", "c", "t", " ", "m", "a", "n", "a", "g", "e", "m", "e", "n", "t">>,
    <<"s", "t", "a", "k", "e", "h", "o", "l", "d", "e", "r">>
}

\* actionVerbs of calculateFormattingScore
actionVerbs == <<
    <<"l", "e", "d">>, <<"m", "a", "n", "a", "g", "e", "d">>,
    <<"d", "e", "v", "e", "l", "o", "p", "e", "d">>, <<"c", "r", "e", "a", "t", "e", "d">>,
    <<"i", "m", "p", "l", "e", "m", "e", "n", "t", "e", "d">>,
    <<"d", "e", "s", "i", "g", "n", "e", "d">>, <<"b", "u", "i", "l", "t">>,
    <<"i", "m", "p", "r", "o", "v", "e", "d">>, <<"i", "n", "c", "r", "e", "a", "s", "e", "d">>,
    <<"r", "e", "d", "u", "c", "e", "d">>, <<"a", "c", "h", "i", "e", "v", "e", "d">>,
    <<"l", "a", "u", "n", "c", "h", "e", "d">>, <<"d", "e", "l", "i", "v", "e", "r", "e", "d">>,
    <<"d", "r", "o", "v", "e">>, <<"s", "p", "e", "a", "r", "h", "e", "a", "d", "e", "d">>,
    <<"o", "r", "c", "h", "e", "s", "t", "r", "a", "t", "e", "d">>,
    <<"s", "t", "r", "e", "a", "m", "l", "i", "n", "e", "d">>,
    <<"o", "p", "t", "i", "m", "i", "z", "e", "d">>
>>

\* The scores <<completeness, keywords, formatting, content>> whose weighted sum is
\* exactly a half but, added up in double precision in the order of the source,
\* falls just below it: Math.round rounds these down.
RoundedDown == {
    <<92, 1, 40, 60>>, <<92, 1, 40, 80>>, <<92, 1, 40, 100>>, <<92, 1, 50, 60>>, <<92, 1, 50, 80>>,
    <<92, 1, 50, 100>>, <<92, 1, 55, 60>>, <<92, 1, 55, 80>>, <<92, 1, 55, 100>>,
    <<92, 1, 60, 60>>, <<92, 1, 60, 80>>, <<92, 1, 60, 100>>, <<92, 1, 65, 60>>, <<92, 1, 65, 80>>,
    <<92, 1, 65, 100>>, <<92, 1, 70, 60>>, <<92, 1, 70, 80>>, <<92, 1, 70, 100>>,
    <<92, 1, 75, 60>>, <<92, 1, 75, 80>>, <<92, 1, 75, 100>>, <<92, 1, 80, 60>>, <<92, 1, 80, 80>>,
    <<92, 1, 80, 100>>, <<92, 1, 85, 60>>, <<92, 1, 85, 80>>, <<92, 1, 90, 60>>, <<92, 1, 90, 80>>,
    <<92, 1, 100, 60>>, <<92, 6, 40, 70>>, <<92, 6, 40, 90>>, <<92, 6, 50, 70>>, <<92, 6, 50, 90>>,
    <<92, 6, 55, 70>>, <<92, 6, 55, 90>>, <<92, 6, 60, 70>>, <<92, 6, 60, 90>>, <<92, 6, 65, 70>>,
    <<92, 6, 65, 90>>, <<92, 6, 70, 70>>, <<92, 6, 70, 90>>, <<92, 6, 75, 70>>, <<92, 6, 75, 90>>,
    <<92, 6, 80, 70>>, <<92, 6, 80, 90>>, <<92, 6, 85, 70>>, <<92, 6, 90, 70>>, <<92, 11, 40, 60>>,
    <<92, 11, 40, 80>>, <<92, 11, 40, 100>>, <<92, 11, 50, 60>>, <<92, 11, 50, 80>>,
    <<92, 11, 50, 100>>, <<92, 11, 55, 60>>, <<92, 11, 55, 80>>, <<92, 11, 55, 100>>,
    <<92, 11, 60, 60>>, <<92, 11, 60, 80>>, <<92, 11, 60, 100>>, <<92, 11, 65, 60>>,
    <<92, 11, 65, 80>>, <<92, 11, 65, 100>>, <<92, 11, 70, 60>>, <<92, 11, 70, 80>>,
    <<92, 11, 75, 60>>, <<92, 11, 75, 80>>, <<92, 11, 80, 60>>, <<92, 11, 80, 80>>,
    <<92, 11, 85, 60>>, <<92, 11, 90, 60>>, <<92, 16, 40, 70>>, <<92, 16, 40, 90>>,
    <<92, 16, 50, 70>>, <<92, 16, 50, 90>>, <<92, 16, 55, 70>>, <<92, 16, 55, 90>>,
    <<92, 16, 60, 70>>, <<92, 16, 60, 90>>, <<92, 16, 65, 70>>, <<92, 16, 65, 90>>,
    <<92, 16, 70, 70>>, <<92, 16, 75, 70>>, <<92, 16, 80, 70>>, <<92, 21, 40, 60>>,
    <<92, 21, 40, 80>>, <<92, 21, 40, 100>>, <<92, 21, 50, 60>>, <<92, 21, 50, 80>>,
    <<92, 21, 50, 100>>, <<92, 21, 55, 60>>, <<92, 21, 55, 80>>, <<92, 21, 60, 60>>,
    <<92, 21, 60, 80>>, <<92, 21, 65, 60>>, <<92, 21, 65, 80>>, <<92, 21, 70, 60>>,
    <<92, 21, 75, 60>>, <<92, 21, 80, 60>>, <<92, 26, 40, 70>>, <<92, 26, 40, 90>>,
    <<92, 26, 50, 70>>, <<92, 26, 50, 90>>, <<92, 26, 55, 70>>, <<92, 26, 60, 70>>,
    <<92, 26, 65, 70>>, <<92, 31, 40, 60>>, <<92, 31, 40, 80>>, <<92, 31, 50, 60>>,
    <<92, 31, 50, 80>>, <<92, 31, 55, 60>>, <<92, 31, 60, 60>>, <<92, 31, 65, 60>>,
    <<92, 36, 40, 70>>, <<92, 36, 50, 70>>, <<92, 41, 40, 60>>, <<92, 41, 50, 60>>,
    <<96, 3, 40, 60>>, <<96, 3, 40, 80>>, <<96, 3, 40, 100>>, <<96, 3, 50, 60>>, <<96, 3, 50, 80>>,
    <<96, 3, 50, 100>>, <<96, 3, 55, 60>>, <<96, 3, 55, 80>>, <<96, 3, 55, 100>>,
    <<96, 3, 60, 60>>, <<96, 3, 60, 80>>, <<96, 3, 60, 100>>, <<96, 3, 65, 60>>, <<96, 3, 65, 80>>,
    <<96, 3, 65, 100>>, <<96, 3, 70, 60>>, <<96, 3, 70, 80>>, <<96, 3, 70, 100>>,
    <<96, 3, 75, 60>>, <<96, 3, 75, 80>>, <<96, 3, 80, 60>>, <<96, 3, 80, 80>>, <<96, 3, 85, 60>>,
    <<96, 3, 85, 80>>, <<96, 3, 90, 60>>, <<96, 3, 100, 60>>, <<96, 8, 40, 70>>, <<96, 8, 40, 90>>,
    <<96, 8, 50, 70>>, <<96, 8, 50, 90>>, <<96, 8, 55, 70>>, <<96, 8, 55, 90>>, <<96, 8, 60, 70>>,
    <<96, 8, 60, 90>>, <<96, 8, 65, 70>>, <<96, 8, 65, 90>>, <<96, 8, 70, 70>>, <<96, 8, 70, 90>>,
    <<96, 8, 75, 70>>, <<96, 8, 80, 70>>, <<96, 8, 85, 70>>, <<96, 13, 40, 60>>,
    <<96, 13, 40, 80>>, <<96, 13, 40, 100>>, <<96, 13, 50, 60>>, <<96, 13, 50, 80>>,
    <<96, 13, 50, 100>>, <<96, 13, 55, 60>>, <<96, 13, 55, 80>>, <<96, 13, 55, 100>>,
    <<96, 13, 60, 60>>, <<96, 13, 60, 80>>, <<96, 13, 65, 60>>, <<96, 13, 65, 80>>,
    <<96, 13, 70, 60>>, <<96, 13, 70, 80>>, <<96, 13, 75, 60>>, <<96, 13, 80, 60>>,
    <<96, 13, 85, 60>>, <<96, 18, 40, 70>>, <<96, 18, 40, 90>>, <<96, 18, 50, 70>>,
    <<96, 18, 50, 90>>, <<96, 18, 55, 70>>, <<96, 18, 55, 90>>, <<96, 18, 60, 70>>,
    <<96, 18, 65, 70>>, <<96, 18, 70, 70>>, <<96, 23, 40, 60>>, <<96, 23, 40, 80>>,
    <<96, 23, 40, 100>>, <<96, 23, 50, 60>>, <<96, 23, 50, 80>>, <<96, 23, 55, 60>>,
    <<96, 23, 55, 80>>, <<96, 23, 60, 60>>, <<96, 23, 65, 60>>, <<96, 23, 70, 60>>,
    <<96, 28, 40, 70>>, <<96, 28, 40, 90>>, <<96, 28, 50, 70>>, <<96, 28, 55, 70>>,
    <<96, 33, 40, 60>>, <<96, 33, 40, 80>>, <<96, 33, 50, 60>>, <<96, 33, 55, 60>>,
    <<96, 38, 40, 70>>, <<96, 43, 40, 60>>
}

\* \s of the regular expressions
IsWhitespace(c) == IsSpaceChar(c) \/ c = "\n"

\* The characters, next to \w and \s, that extractKeywords keeps: - / + # .
KeptChars == {"-", "/", "+", "#", "."}

\* .replace(/[^\w\s\-/+#.]/g, ' ') on a lower-case text
ReplaceSpecials(s) ==
    [i \in 1..Len(s) |->
        IF s[i] \in WordChars \/ IsWhitespace(s[i]) \/ s[i] \in KeptChars THEN s[i] ELSE " "]

\* The maximal runs of characters other than white space among the characters
\* lo..hi of s, in order: those of the two halves of the range, the run that
\* crosses the middle being one run.
RECURSIVE WordsIn(_, _, _)
WordsIn(s, lo, hi) ==
    IF lo > hi THEN <<>>
    ELSE IF lo = hi THEN (IF IsWhitespace(s[lo]) THEN <<>> ELSE << <<s[lo]>> >>)
    ELSE LET mid == (lo + hi) \div 2
             l == WordsIn(s, lo, mid)
             r == WordsIn(s, mid + 1, hi)
         IN IF ~IsWhitespace(s[mid]) /\ ~IsWhitespace(s[mid + 1])
            THEN SubSeq(l, 1, Len(l) - 1) \o <<l[Len(l)] \o r[1]>> \o Tail(r)
            ELSE l \o r

Words(s) == WordsIn(s, 1, Len(s))

\* .replace(/\s+/g, ' ').trim().split(' '): the runs of characters other than
\* white space; a text without any splits into one empty string.
SplitNormalized(s) ==
    LET ws == Words(s)
    IN IF ws = <<>> THEN << <<>> >> ELSE ws

\* .split(/\s+/): as above, with an empty string in front when the text
\* starts with white space and one at the end when it ends with white space.
SplitWhitespace(s) ==
    IF s = <<>> THEN << <<>> >>
    ELSE (IF IsWhitespace(s[1]) THEN << <<>> >> ELSE <<>>)
            \o Words(s)
            \o (IF IsWhitespace(s[Len(s)]) THEN << <<>> >> ELSE <<>>)

\* String.prototype.trim, on a text with line breaks
TrimWhitespace(s) ==
    LET inked == {i \in 1..Len(s) : ~IsWhitespace(s[i])}
    IN IF inked = {} THEN <<>>
       ELSE SubSeq(s, CHOOSE b \in inked : \A i \in inked : b <= i,
                      CHOOSE e \in inked : \A i \in inked : e >= i)

\* Array.prototype.join
RECURSIVE JoinRange(_, _, _, _)
JoinRange(parts, lo, hi, sep) ==
    IF lo > hi THEN <<>>
    ELSE IF lo = hi THEN parts[lo]
    ELSE LET mid == (lo + hi) \div 2
         IN JoinRange(parts, lo, mid, sep) \o sep \o JoinRange(parts, mid + 1, hi, sep)

Join(parts, sep) == JoinRange(parts, 1, Len(parts), sep)

\* The insertion order of a Set to which s[lo], ..., s[hi] are added one after
\* the other: the first occurrences, in order.
RECURSIVE AddRange(_, _, _)
AddRange(s, lo, hi) ==
    IF lo > hi THEN <<>>
    ELSE IF lo = hi THEN <<s[lo]>>
    ELSE LET mid == (lo + hi) \div 2
             l == AddRange(s, lo, mid)
             r == AddRange(s, mid + 1, hi)
         IN l \o SelectSeq(r, LAMBDA e : \A k \in 1..Len(l) : l[k] # e)

AddAll(s) == AddRange(s, 1, Len(s))

\* Array.prototype.slice(0, n)
Slice(s, n) == SubSeq(s, 1, Min(Len(s), n))

IsTech(w) == w \in TECH_KEYWORDS

\* The words kept as keywords (347-349)
Singles(words) == SelectSeq(words, LAMBDA w : Len(w) >= 2 /\ w \notin STOP_WORDS)

\* The pairs of neighbouring words (352-357)
Bigrams(words) == [i \in 1..(Len(words) - 1) |-> words[i] \o <<" ">> \o words[i + 1]]

\* The technical keywords first (360-368): the sort is stable and its
\* comparator knows two ranks.
TechFirst(keywords) ==
    SelectSeq(keywords, IsTech) \o SelectSeq(keywords, LAMBDA w : ~IsTech(w))

\* The keywords of the words of a text (347-368)
KeywordsOf(words) == TechFirst(AddAll(Singles(words) \o SelectSeq(Bigrams(words), IsTech)))

\* extractKeywords (333-369)
extractKeywords(text) ==
    IF text = <<>> THEN <<>>
    ELSE KeywordsOf(SplitNormalized(ReplaceSpecials(ToLowerCase(text))))

\* The number of words the keyword contains or is contained in (383-387).
Frequency(keyword, words) ==
    Cardinality({i \in 1..Len(words) :
                    Includes(words[i], keyword) \/ Includes(keyword, words[i])})

\* Inserts the weighted keyword e behind the entries of sorted that weigh as
\* much or more (a stable descending sort).
RECURSIVE InsertByWeight(_, _)
InsertByWeight(sorted, e) ==
    IF sorted = <<>> THEN <<e>>
    ELSE IF Head(sorted).weight >= e.weight THEN <<Head(sorted)>> \o InsertByWeight(Tail(sorted), e)
    ELSE <<e>> \o sorted

RECURSIVE SortByWeight(_, _, _)
SortByWeight(es, i, sorted) ==
    IF i > Len(es) THEN sorted
    ELSE SortByWeight(es, i + 1, InsertByWeight(sorted, es[i]))

MaxJobKeywords == 50

TechBonus == 10

\* The keywords with their weights (380-398)
Weighted(keywords, words) ==
    [i \in 1..Len(keywords) |->
        [keyword |-> keywords[i],
         weight |-> Frequency(keywords[i], words)
                      + (IF IsTech(keywords[i]) THEN TechBonus ELSE 0)]]

\* .map(([keyword]) => keyword) (399-400)
KeywordsIn(sorted) == [i \in 1..Len(sorted) |-> sorted[i].keyword]

\* extractJobKeywords (374-401)
extractJobKeywords(jobDescription) ==
    Slice(KeywordsIn(SortByWeight(Weighted(extractKeywords(jobDescription),
                                           SplitWhitespace(ToLowerCase(jobDescription))),
                                  1, <<>>)),
          MaxJobKeywords)

\* Flattens a sequence of sequences.
Concat(ss) == JoinRange(ss, 1, Len(ss), <<>>)

\* extractResumeText (408-454)
extractResumeText(resume) ==
    LET space == <<" ">>
        parts ==
            <<resume.personal.fullName, resume.personal.jobTitle, resume.personal.summary>>
            \o Concat([i \in 1..Len(resume.experiences) |->
                        <<resume.experiences[i].company, resume.experiences[i].position,
                          resume.experiences[i].description>>])
            \o Concat([i \in 1..Len(resume.education) |->
                        <<resume.education[i].institution, resume.education[i].degree,
                          resume.education[i].field, resume.education[i].description>>])
            \o <<Join(resume.skills, space)>>
            \o Concat([i \in 1..Len(resume.projects) |->
                        <<resume.projects[i].name, resume.projects[i].description,
                          Join(resume.projects[i].technologies, space)>>])
            \o Concat([i \in 1..Len(resume.certifications) |->
                        <<resume.certifications[i].name, resume.certifications[i].issuer>>])
            \o Concat([i \in 1..Len(resume.expertiseAreas) |->
                        <<resume.expertiseAreas[i].category,
                          Join(resume.expertiseAreas[i].keywords, space)>>])
    IN Join(SelectSeq(parts, LAMBDA p : p # <<>>), space)

Suggestion(id, category, section) == [id |-> id, category |-> category, section |-> section]

\* The result of a sub-score: the points and the suggestions pushed.
Scored(score, suggestions) == [score |-> score, suggestions |-> suggestions]

\* A criterion that adds twice its points.
AwardTwice(points, suggestions) == [points |-> 2 * points, suggestions |-> suggestions]

\* One criterion of a sub-score: the points it adds and the suggestions it pushes.
Award(points, suggestions) == [points |-> points, suggestions |-> suggestions]

SumPoints(awards) == SumSeq([i \in 1..Len(awards) |-> awards[i].points])

AllSuggestions(awards) == Concat([i \in 1..Len(awards) |-> awards[i].suggestions])

SummaryGoodLength == 50

DescriptionGoodLength == 50

\* The points of the criteria, capped at maxScore, and their suggestions (464, 615)
Completed(awards) ==
    LET maxScore == 100
    IN Scored(Min(SumPoints(awards), maxScore), AllSuggestions(awards))

\* The deductions from a score of 100, which stops at 0, and their
\* suggestions (622, 700; 707, 750)
Deducted(awards) == Scored(Max(100 + SumPoints(awards), 0), AllSuggestions(awards))

\* calculateCompletenessScore (461-616)
calculateCompletenessScore(resume) ==
    LET personal == resume.personal
        nExp == Len(resume.experiences)
        expWithDescriptions ==
            SelectSeq(resume.experiences,
                      LAMBDA exp : exp.description # <<>> /\ Len(exp.description) >= DescriptionGoodLength)
        nSkills == Len(resume.skills)
        awards == <<
            IF personal.fullName # <<>> THEN Award(5, <<>>)
            ELSE Award(0, <<Suggestion("personal-name", "critical", "Personal Info")>>),
            IF personal.email # <<>> THEN Award(5, <<>>)
            ELSE Award(0, <<Suggestion("personal-email", "critical", "Personal Info")>>),
            IF personal.phone # <<>> THEN Award(5, <<>>)
            ELSE Award(0, <<Suggestion("personal-phone", "important", "Personal Info")>>),
            IF personal.location # <<>> THEN Award(5, <<>>)
            ELSE Award(0, <<Suggestion("personal-location", "optional", "Personal Info")>>),
            IF personal.jobTitle # <<>> THEN Award(5, <<>>)
            ELSE Award(0, <<Suggestion("personal-title", "important", "Personal Info")>>),
            IF personal.summary # <<>> /\ Len(personal.summary) >= SummaryGoodLength THEN Award(5, <<>>)
            ELSE IF personal.summary # <<>>
                 THEN Award(2, <<Suggestion("personal-summary-short", "important", "Personal Info")>>)
            ELSE Award(0, <<Suggestion("personal-summary", "important", "Personal Info")>>),
            IF nExp >= 2 THEN Award(15, <<>>)
            ELSE IF nExp = 1
                 THEN Award(8, <<Suggestion("experience-more", "optional", "Experience")>>)
            ELSE Award(0, <<Suggestion("experience-none", "critical", "Experience")>>),
            IF Len(expWithDescriptions) = nExp /\ nExp > 0 THEN Award(15, <<>>)
            ELSE IF Len(expWithDescriptions) > 0
                 THEN Award(8, <<Suggestion("experience-descriptions", "important", "Experience")>>)
            ELSE Award(0, <<>>),
            IF Len(resume.education) >= 1 THEN Award(15, <<>>)
            ELSE Award(0, <<Suggestion("education-none", "important", "Education")>>),
            IF nSkills >= 8 THEN Award(25, <<>>)
            ELSE IF nSkills >= 5
                 THEN Award(18, <<Suggestion("skills-more", "optional", "Skills")>>)
            ELSE IF nSkills >= 1
                 THEN Award(10, <<Suggestion("skills-few", "important", "Skills")>>)
            ELSE Award(0, <<Suggestion("skills-none", "critical", "Skills")>>) >>
    IN Completed(awards)

Digits == {"0", "1", "2", "3", "4", "5", "6", "7", "8", "9"}

\* /\d+%?/.test(s): s holds a digit
HasNumber(s) == \E i \in 1..Len(s) : s[i] \in Digits

\* The character U+2022 (a bullet).
Bullet == "U+2022"

LongSummaryLength == 500

\* calculateFormattingScore (621-701)
calculateFormattingScore(resume) ==
    LET nExp == Len(resume.experiences)
        hasGoodFormatting ==
            \E i \in 1..nExp :
                \E c \in {"\n", Bullet, "-"} : Includes(resume.experiences[i].description, <<c>>)
        hasNumbers == \E i \in 1..nExp : HasNumber(resume.experiences[i].description)
        resumeText == ToLowerCase(extractResumeText(resume))
        hasActionVerbs == \E v \in 1..Len(actionVerbs) : Includes(resumeText, actionVerbs[v])
        awards == <<
            IF resume.personal.summary # <<>> /\ Len(resume.personal.summary) > LongSummaryLength
            THEN Award(-10, <<Suggestion("format-summary-long", "optional", "Formatting")>>)
            ELSE Award(0, <<>>),
            IF ~hasGoodFormatting /\ nExp > 0
            THEN Award(-15, <<Suggestion("format-bullets", "important", "Formatting")>>)
            ELSE Award(0, <<>>),
            IF ~hasNumbers /\ nExp > 0
            THEN Award(-20, <<Suggestion("format-quantify", "important", "Content")>>)
            ELSE Award(0, <<>>),
            IF ~hasActionVerbs /\ nExp > 0
            THEN Award(-15, <<Suggestion("format-action-verbs", "important", "Content")>>)
            ELSE Award(0, <<>>) >>
    IN Deducted(awards)

DetailedLength == 100

\* calculateContentScore (706-751)
calculateContentScore(resume) ==
    LET nExp == Len(resume.experiences)
        totalLength == SumSeq([i \in 1..nExp |-> Len(resume.experiences[i].description)])
        nSkills == Len(resume.skills)
        lowerSkills == {ToLowerCase(resume.skills[i]) : i \in 1..nSkills}
        awards == <<
            \* avgDescLength < 100, the average being totalLength / max(nExp, 1)
            IF totalLength < DetailedLength * Max(nExp, 1) /\ nExp > 0
            THEN Award(-20, <<Suggestion("content-short-desc", "important", "Experience")>>)
            ELSE Award(0, <<>>),
            IF nSkills > 0 /\ nSkills = Cardinality(lowerSkills) THEN Award(0, <<>>)
            ELSE IF nSkills > 0
                 THEN Award(-10, <<Suggestion("content-duplicate-skills", "optional", "Skills")>>)
            ELSE Award(0, <<>>),
            IF Len(resume.projects) = 0 /\ Len(resume.certifications) = 0
            THEN Award(-10, <<Suggestion("content-extras", "optional", "General")>>)
            ELSE Award(0, <<>>) >>
    IN Deducted(awards)

\* The pairs <<matched, total>> whose rate is exactly a half but, computed
\* in double precision as matched / total * 100, falls just below it.
RateRoundedDown == {<<23, 40>>}

\* A rate that counts the matched keywords against the missing ones.
matchRateOfMissing(matched, total) ==
    LET missing == Max(total - matched, 1)
    IN IF total > 0 THEN (200 * matched + missing) \div (2 * missing) ELSE 0

\* Math.round((matched / total) * 100), or 0 without keywords (779)
matchRate(matched, total) ==
    IF total > 0
    THEN IF <<matched, total>> \in RateRoundedDown
         THEN (100 * matched) \div total
         ELSE (200 * matched + total) \div (2 * total)
    ELSE 0

MaxMissing == 20

KeywordAnalysis(jobKeywords, matched, missing, rate) ==
    [extracted |-> jobKeywords, matched |-> matched, missing |-> missing, matchRate |-> rate]

\* The test of a job keyword against the resume (771-773)
IsMatched(resumeText, resumeKeywords, keyword) ==
    \/ Includes(resumeText, keyword)
    \/ \E i \in 1..Len(resumeKeywords) : resumeKeywords[i] = keyword

\* The result of analyzeKeywords (781-788)
Analysed(jobKeywords, matched, missing) ==
    KeywordAnalysis(jobKeywords, matched, Slice(missing, MaxMissing),
                    matchRate(Len(matched), Len(jobKeywords)))

\* The job keywords told apart (767-779)
MatchKeywords(jobKeywords, resumeText, resumeKeywords) ==
    Analysed(jobKeywords,
             SelectSeq(jobKeywords, LAMBDA k : IsMatched(resumeText, resumeKeywords, k)),
             SelectSeq(jobKeywords, LAMBDA k : ~IsMatched(resumeText, resumeKeywords, k)))

\* The job keywords against the text of the resume (762-765)
MatchText(jobKeywords, resumeText) ==
    MatchKeywords(jobKeywords, resumeText, extractKeywords(resumeText))

\* analyzeKeywords (756-789)
analyzeKeywords(resume, jobDescription) ==
    IF TrimWhitespace(jobDescription) = <<>> THEN KeywordAnalysis(<<>>, <<>>, <<>>, 0)
    ELSE MatchText(extractJobKeywords(jobDescription), ToLowerCase(extractResumeText(resume)))

DefaultKeywordScore == 70

\* Math.round(completeness * 0.35 + keywords * 0.3 + formatting * 0.2 + content * 0.15)
overallOf(c, k, f, t) ==
    LET hundredfold == 35 * c + 30 * k + 20 * f + 15 * t
    IN IF <<c, k, f, t>> \in RoundedDown THEN hundredfold \div 100
       ELSE (hundredfold + 50) \div 100

\* jobDescription of calculateATSScore: absent, or a text
NoJobDescription == [given |-> FALSE, text |-> <<>>]
JobDescription(text) == [given |-> TRUE, text |-> text]

\* The suggestions on the match rate (813-831)
KeywordSuggestions(analysed, rate) ==
    IF analysed /\ rate < 50
    THEN <<Suggestion("keywords-low", "critical", "Keywords")>>
    ELSE IF analysed /\ rate < 70
    THEN <<Suggestion("keywords-medium", "important", "Keywords")>>
    ELSE <<>>

\* The suggestions in the order in which the sub-scores pushed them.
SortSuggestionsKeepOrder(all) == all

\* The suggestions by priority (846-850): the sort is stable and its
\* comparator knows three ranks.
SortSuggestions(all) ==
    SelectSeq(all, LAMBDA s : s.category = "critical")
        \o SelectSeq(all, LAMBDA s : s.category = "important")
        \o SelectSeq(all, LAMBDA s : s.category = "optional")

\* The result of calculateATSScore (834-860)
ATSScore(completeness, formatting, content, analysed, analysis) ==
    [overall |-> overallOf(completeness.score, analysis.matchRate,
                           formatting.score, content.score),
     breakdown |-> [completeness |-> completeness.score,
                    keywords |-> analysis.matchRate,
                    formatting |-> formatting.score,
                    content |-> content.score],
     suggestions |-> SortSuggestions(completeness.suggestions \o formatting.suggestions
                                        \o content.suggestions
                                        \o KeywordSuggestions(analysed, analysis.matchRate)),
     matchedKeywords |-> analysis.matched,
     missingKeywords |-> analysis.missing]

\* calculateATSScore (796-861)
calculateATSScore(resume, jobDescription) ==
    LET analysed == jobDescription.given /\ jobDescription.text # <<>>
                       /\ TrimWhitespace(jobDescription.text) # <<>>
    IN ATSScore(calculateCompletenessScore(resume),
                calculateFormattingScore(resume),
                calculateContentScore(resume),
                analysed,
                IF analysed THEN analyzeKeywords(resume, jobDescription.text)
                ELSE KeywordAnalysis(<<>>, <<>>, <<>>, DefaultKeywordScore))

(***************************************************************************)
(* The resume records and job descriptions the score is computed for       *)
(***************************************************************************)
NameJane ==
  <<"J", "a", "n", "e", " ", "D", "o", "e">>

Email ==
  <<"j", "a", "n", "e", "@", "d", "o", "e", ".", "i", "o">>

Phone ==
  <<"+", "1", " ", "5", "5", "5", " ", "0", "1", "0", "0">>

Location ==
  <<"O", "s", "l", "o">>

JobTitle ==
  <<"P", "y", "t", "h", "o", "n", " ", "D", "e", "v", "e", "l", "o", "p", "e", "r">>

SummaryShort ==
  <<"S", "h", "i", "p", "s", " ", "d", "a", "t", "a", " ", "t", "o", "o", "l", "s", ".">>

SummaryGood ==
  <<"P", "y", "t", "h", "o", "n", " ", "d", "e", "v", "e", "l", "o", "p", "e", "r", " ", "s", "h",
      "i", "p", "p", "i", "n", "g", " ", "d", "a", "t", "a", " ", "t", "o", "o", "l", "s", " ", "f",
      "o", "r", " ", "b", "a", "n", "k", "s", " ", "s", "i", "n", "c", "e", " ", "2", "0", "1", "5",
      ".">>

SummaryChunk ==
  <<"S", "h", "i", "p", "s", " ", "d", "a", "s", "h", "b", "o", "a", "r", "d", "s", " ", "a", "n",
      "d", " ", "d", "a", "t", "a", " ", "t", "o", "o", "l", "s", " ", "f", "o", "r", " ", "b", "a",
      "n", "k", "s", ".", " ">>

ExpShort ==
  [company |-> <<"A", "c", "m", "e">>,
   position |-> <<"E", "n", "g", "i", "n", "e", "e", "r">>,
   description |->
     <<"W", "r", "o", "t", "e", " ", "c", "o", "d", "e">>]

ExpBulleted ==
  [company |-> <<"I", "n", "i", "t", "e", "c", "h">>,
   position |-> <<"A", "n", "a", "l", "y", "s", "t">>,
   description |->
     <<"-", " ", "L", "e", "d", " ", "5", " ", "a", "n", "a", "l", "y", "s", "t", "s", "\n", "-",
       " ", "C", "u", "t", " ", "c", "o", "s", "t", "s", " ", "b", "y", " ", "2", "0", "%", " ",
       "a", "c", "r", "o", "s", "s", " ", "3", " ", "r", "e", "g", "i", "o", "n", "s">>]

ExpLong ==
  [company |-> <<"G", "l", "o", "b", "e", "x">>,
   position |-> <<"C", "o", "n", "s", "u", "l", "t", "a", "n", "t">>,
   description |->
     <<"K", "e", "p", "t", " ", "t", "h", "e", " ", "b", "i", "l", "l", "i", "n", "g", " ", "p",
       "l", "a", "t", "f", "o", "r", "m", " ", "r", "u", "n", "n", "i", "n", "g", " ", "w", "i",
       "t", "h", " ", "t", "h", "e", " ", "p", "a", "y", "m", "e", "n", "t", "s", " ", "g", "r",
       "o", "u", "p", " ", "a", "n", "d", " ", "a", "n", "s", "w", "e", "r", "e", "d", " ", "c",
       "u", "s", "t", "o", "m", "e", "r", " ", "q", "u", "e", "s", "t", "i", "o", "n", "s", " ",
       "e", "v", "e", "r", "y", " ", "d", "a", "y", " ", "o", "f", " ", "t", "h", "e", " ", "w",
       "e", "e", "k", ".">>]

RECURSIVE Repeat(_, _)
Repeat(s, n) == IF n = 0 THEN <<>> ELSE s \o Repeat(s, n - 1)

\* 12 times 43 characters: more than LongSummaryLength
SummaryLong == Repeat(SummaryChunk, 12)

Personal(fullName, email, phone, location, jobTitle, summary) ==
    [fullName |-> fullName, email |-> email, phone |-> phone, location |-> location,
     jobTitle |-> jobTitle, summary |-> summary]

Personals == {
    Personal(<<>>, <<>>, <<>>, <<>>, <<>>, <<>>),
    Personal(NameJane, Email, Phone, Location, JobTitle, SummaryShort),
    Personal(NameJane, Email, Phone, Location, JobTitle, SummaryGood),
    Personal(NameJane, <<>>, Phone, Location, <<>>, SummaryLong) }

ExperienceLists == {
    <<>>, <<ExpShort>>, <<ExpShort, ExpBulleted>>, <<ExpBulleted, ExpLong>>, <<ExpLong, ExpLong>> }

EduBsc ==
    [institution |-> <<"N", "T", "N", "U">>,
     degree |-> <<"B", "S", "c">>,
     field |-> <<"C", "o", "m", "p", "u", "t", "e", "r", " ", "S", "c", "i", "e", "n", "c", "e">>,
     description |-> <<>>]

SkillGo == <<"G", "o">>
SkillRust == <<"R", "u", "s", "t">>
SkillSql == <<"S", "Q", "L">>
SkillDocker == <<"D", "o", "c", "k", "e", "r">>
SkillGit == <<"G", "i", "t">>
SkillAws == <<"A", "W", "S">>
SkillReact == <<"R", "e", "a", "c", "t">>
SkillPython == <<"P", "y", "t", "h", "o", "n">>
SkillMsProject == <<"M", "S", " ", "P", "r", "o", "j", "e", "c", "t">>

SkillLists == {
    <<>>,
    <<SkillMsProject>>,
    <<SkillPython, SkillSql, ToLowerCase(SkillPython)>>,
    <<SkillGo, SkillRust, SkillSql, SkillDocker, SkillGit>>,
    <<SkillGo, SkillRust, SkillSql, SkillDocker, SkillGit, SkillAws, SkillReact, SkillMsProject>> }

ProjectPortal ==
    [name |-> <<"M", "a", "n", "a", "g", "e", "m", "e", "n", "t", " ", "P", "o", "r", "t", "a", "l">>,
     description |-> <<>>,
     technologies |-> <<SkillReact>>]

CertOlympiad ==
    [name |-> <<"S", "c", "i", "e", "n", "c", "e", " ", "O", "l", "y", "m", "p", "i", "a", "d">>,
     issuer |-> <<"N", "T", "N", "U">>]

AreaCloud ==
    [category |-> <<"C", "l", "o", "u", "d">>,
     keywords |-> <<<<"a", "w", "s">>, <<"a", "z", "u", "r", "e">>>>]

Sections(education, projects, certifications, expertiseAreas) ==
    [education |-> education, projects |-> projects, certifications |-> certifications,
     expertiseAreas |-> expertiseAreas]

\* education, projects, certifications and expertiseAreas of a resume
OtherSections == {
    Sections(<<>>, <<>>, <<>>, <<>>),
    Sections(<<EduBsc>>, <<>>, <<>>, <<>>),
    Sections(<<EduBsc>>, <<ProjectPortal>>, <<>>, <<>>),
    Sections(<<>>, <<>>, <<CertOlympiad>>, <<AreaCloud>>) }

ResumeOf(personal, experiences, skills, others) ==
    [personal |-> personal, experiences |-> experiences, education |-> others.education,
     skills |-> skills, projects |-> others.projects,
     certifications |-> others.certifications, expertiseAreas |-> others.expertiseAreas]

Resumes ==
    {ResumeOf(p, e, s, x) :
        p \in Personals, e \in ExperienceLists, s \in SkillLists, x \in OtherSections}

SkillKafka == <<"K", "a", "f", "k", "a">>

\* The resumes of the scenario with three experience entries, two education
\* entries and ten skills: name, e-mail address and phone number, and the
\* other personal fields either all empty or all filled in.
ThreeExperiences == <<ExpBulleted, ExpBulleted, ExpBulleted>>

TenSkills == <<SkillGo, SkillRust, SkillSql, SkillDocker, SkillGit, SkillAws, SkillReact,
               SkillMsProject, SkillPython, SkillKafka>>

TwoEducations == Sections(<<EduBsc, EduBsc>>, <<>>, <<>>, <<>>)

ScenarioResumes ==
    {ResumeOf(p, ThreeExperiences, TenSkills, TwoEducations) :
        p \in {Personal(NameJane, Email, Phone, <<>>, <<>>, <<>>),
               Personal(NameJane, Email, Phone, Location, JobTitle, SummaryGood)}}

\* Resumes with two experience entries whose descriptions are both shorter
\* than 50 characters, eight skills and an education entry.
TerseResumes ==
    {ResumeOf(p, <<ExpShort, ExpShort>>,
              <<SkillGo, SkillRust, SkillSql, SkillDocker, SkillGit, SkillAws, SkillReact,
                SkillMsProject>>,
              Sections(<<EduBsc>>, <<>>, <<>>, <<>>)) :
        p \in {Personal(NameJane, Email, Phone, Location, JobTitle, SummaryGood),
               Personal(NameJane, Email, Phone, Location, JobTitle, SummaryShort)}}

EmptyResume ==
    ResumeOf(Personal(<<>>, <<>>, <<>>, <<>>, <<>>, <<>>), <<>>, <<>>, Sections(<<>>, <<>>, <<>>, <<>>))

JdBlank == <<" ", " ">>

JdManagement ==
  <<"P", "r", "o", "j", "e", "c", "t", " ", "m", "a", "n", "a", "g", "e", "m", "e", "n", "t", " ",
    "w", "i", "t", "h", " ", "P", "y", "t", "h", "o", "n">>

JdData ==
  <<" ", "P", "y", "t", "h", "o", "n", "/", "S", "Q", "L", " ", "&", " ", "d", "a", "t", "a", " ",
    "s", "c", "i", "e", "n", "c", "e", ".", "\n", "P", "y", "t", "h", "o", "n", "!">>

JobDescriptions ==
    {NoJobDescription, JobDescription(<<>>), JobDescription(JdBlank),
     JobDescription(JdManagement), JobDescription(JdData)}

(***************************************************************************)
(* The score panel: the score of the resume and the job description, and  *)
(* the skills list growing by keywords of the job description.            *)
(***************************************************************************)
MaxAdded == 1

NoScore ==
    [overall |-> 0,
     breakdown |-> [completeness |-> 0, keywords |-> 0, formatting |-> 0, content |-> 0],
     suggestions |-> <<>>, matchedKeywords |-> <<>>, missingKeywords |-> <<>>]

AtsInit ==
    /\ data = EmptyResume
    /\ jobDesc = NoJobDescription
    /\ scored = FALSE
    /\ atsScore = NoScore
    /\ keywordsBefore = -1
    /\ added = 0

\* The panel computes the score of the data and the job description.
CallCalculateATSScore ==
    /\ ~scored
    /\ scored' = TRUE
    /\ atsScore' = calculateATSScore(data, jobDesc)
    /\ UNCHANGED <<data, jobDesc, keywordsBefore, added>>
    /\ UNCHANGED otherThanAts

\* SET_SKILLS with the skills list and one keyword of the job description
\* more; the panel computes the score again.
SetSkills(keyword) ==
    /\ scored
    /\ added < MaxAdded
    /\ LET payload == Append(data.skills, keyword)
           state == [data EXCEPT !.skills = payload]
       IN /\ data' = state
          /\ atsScore' = calculateATSScore(state, jobDesc)
    /\ keywordsBefore' = atsScore.breakdown.keywords
    /\ added' = added + 1
    /\ UNCHANGED <<jobDesc, scored>>
    /\ UNCHANGED otherThanAts

AtsNext ==
    \/ CallCalculateATSScore
    \/ \E keyword \in {extractJobKeywords(jobDesc.text)[i] :
                          i \in 1..Len(extractJobKeywords(jobDesc.text))} :
          SetSkills(keyword)


(***************************************************************************)
(* parseDate (section-detector.ts)                                         *)
(***************************************************************************)
\* The alternatives of the month pattern of parseDate, in the order of the
\* pattern, each with its forms in the order a greedy match tries them: the
\* name with its optional groups, then without.
MonthForms == <<
    <<<<"j", "a", "n", "u", "a", "r", "y">>, <<"j", "a", "n">>>>,
    <<<<"f", "e", "b", "r", "u", "a", "r", "y">>, <<"f", "e", "b">>>>,
    <<<<"m", "a", "r", "c", "h">>, <<"m", "a", "r">>>>,
    <<<<"a", "p", "r", "i", "l">>, <<"a", "p", "r">>>>,
    <<<<"m", "a", "y">>>>,
    <<<<"j", "u", "n", "e">>, <<"j", "u", "n">>>>,
    <<<<"j", "u", "l", "y">>, <<"j", "u", "l">>>>,
    <<<<"a", "u", "g", "u", "s", "t">>, <<"a", "u", "g">>>>,
    <<<<"s", "e", "p", "t", "e", "m", "b", "e", "r">>, <<"s", "e", "p", "t">>, <<"s", "e", "p">>>>,
    <<<<"o", "c", "t", "o", "b", "e", "r">>, <<"o", "c", "t">>>>,
    <<<<"n", "o", "v", "e", "m", "b", "e", "r">>, <<"n", "o", "v">>>>,
    <<<<"d", "e", "c", "e", "m", "b", "e", "r">>, <<"d", "e", "c">>>>
>>

\* undefined where a string is expected: a text that no string is equal to
Undefined == <<"undefined">>

DigitChars == <<"0", "1", "2", "3", "4", "5", "6", "7", "8", "9">>

\* A month code that is not padded.
MonthCodeUnpadded(n) ==
    IF n < 10 THEN <<DigitChars[n + 1]>> ELSE <<DigitChars[(n \div 10) + 1], DigitChars[(n % 10) + 1]>>

\* monthMap: the code of the n-th month
MonthCode(n) == <<DigitChars[(n \div 10) + 1], DigitChars[(n % 10) + 1]>>

\* String.prototype.padStart(2, '0')
PadStart2(s) == IF Len(s) < 2 THEN <<"0">> \o s ELSE s

\* parseDate (367-415)
parseDate(dateStr) ==
    LET str == ToLowerCase(TrimWhitespace(dateStr))
        n == Len(str)
        At(i, p) == i + Len(p) - 1 <= n /\ SubSeq(str, i, i + Len(p) - 1) = p
        IsDigit(i) == i >= 1 /\ i <= n /\ str[i] \in Digits
        IsWord(i) == i >= 1 /\ i <= n /\ str[i] \in WordChars
        FourDigits(i) == \A k \in i..(i + 3) : IsDigit(k)
        \* \s*: the first position from i on that holds no white space
        AfterSpaces(i) ==
            CHOOSE j \in i..(n + 1) :
                /\ \A k \in i..(j - 1) : IsWhitespace(str[k])
                /\ j = n + 1 \/ ~IsWhitespace(str[j])
        \* the month alternative m in form f at i, white space, four digits
        MonthYearAt(i, m, f) ==
            /\ At(i, MonthForms[m][f])
            /\ FourDigits(AfterSpaces(i + Len(MonthForms[m][f])))
        monthYearStarts ==
            {i \in 1..n : \E m \in 1..Len(MonthForms) :
                             \E f \in 1..Len(MonthForms[m]) : MonthYearAt(i, m, f)}
        \* \b(\d{4})\b at i
        YearAt(i) == FourDigits(i) /\ ~IsWord(i - 1) /\ ~IsWord(i + 4)
        yearStarts == {i \in 1..n : YearAt(i)}
        \* (\d{1,2})\/(\d{4}) at i, the month having d digits
        SlashAt(i, d) ==
            /\ \A k \in i..(i + d - 1) : IsDigit(k)
            /\ At(i + d, <<"/">>)
            /\ FourDigits(i + d + 1)
        slashStarts == {i \in 1..n : SlashAt(i, 2) \/ SlashAt(i, 1)}
        First(starts) == CHOOSE i \in starts : \A j \in starts : i <= j
    IN IF dateStr = <<>> THEN Undefined
       ELSE IF str = <<"p", "r", "e", "s", "e", "n", "t">> \/ str = <<"c", "u", "r", "r", "e", "n", "t">>
       THEN Undefined
       ELSE IF monthYearStarts # {}
       THEN LET i == First(monthYearStarts)
                m == CHOOSE k \in 1..Len(MonthForms) :
                        \E f \in 1..Len(MonthForms[k]) : MonthYearAt(i, k, f)
                f == CHOOSE k \in 1..Len(MonthForms[m]) :
                        /\ MonthYearAt(i, m, k)
                        /\ \A j \in 1..(k - 1) : ~MonthYearAt(i, m, j)
                y == AfterSpaces(i + Len(MonthForms[m][f]))
            IN SubSeq(str, y, y + 3) \o <<"-">> \o MonthCode(m)
       ELSE IF yearStarts # {}
       THEN LET i == First(yearStarts)
            IN SubSeq(str, i, i + 3) \o <<"-", "0", "1">>
       ELSE IF slashStarts # {}
       THEN LET i == First(slashStarts)
                d == IF SlashAt(i, 2) THEN 2 ELSE 1
            IN SubSeq(str, i + d + 1, i + d + 4) \o <<"-">> \o PadStart2(SubSeq(str, i, i + d - 1))
       ELSE Undefined

(***************************************************************************)
(* Date strings                                                            *)
(***************************************************************************)
Capitals == {"A", "B", "C", "D", "E", "F", "G", "H", "I", "J", "K", "L", "M", "N", "O",
             "P", "Q", "R", "S", "T", "U", "V", "W", "X", "Y", "Z"}

ToUpperChar(c) ==
    IF \E u \in Capitals : u # c /\ ToLowerChar(u) = c
    THEN CHOOSE u \in Capitals : u # c /\ ToLowerChar(u) = c
    ELSE c

\* A lower-case text in lower case, capitalized, or in upper case.
InCase(s, case) ==
    CASE case = "lower" -> s
      [] case = "capital" -> [i \in 1..Len(s) |-> IF i = 1 THEN ToUpperChar(s[i]) ELSE s[i]]
      [] case = "upper" -> [i \in 1..Len(s) |-> ToUpperChar(s[i])]

Cases == {"lower", "capital", "upper"}

\* The years of the date strings, as four digits.
Years == {<<"1", "9", "9", "9">>, <<"2", "0", "2", "1">>}

\* The month names: the full name and the first three letters.
MonthNames(m) == {MonthForms[m][1], SubSeq(MonthForms[m][1], 1, 3)}

\* "<Month> <YYYY>"
MonthYearString(name, case, year) == InCase(name, case) \o <<" ">> \o year

\* "<MM>/<YYYY>", the month in one or in two digits
SlashStrings(m, year) ==
    IF m < 10
    THEN {<<DigitChars[m + 1]>> \o <<"/">> \o year, <<"0", DigitChars[m + 1]>> \o <<"/">> \o year}
    ELSE {<<"1", DigitChars[m - 9]>> \o <<"/">> \o year}

MonthYearStrings ==
    {MonthYearString(name, case, year) :
        name \in UNION {MonthNames(m) : m \in 1..12}, case \in Cases, year \in Years}

OpenStrings ==
    {InCase(s, case) : s \in {<<"p", "r", "e", "s", "e", "n", "t">>,
                              <<"c", "u", "r", "r", "e", "n", "t">>}, case \in Cases}

\* Strings of none of the forms.
OtherStrings == {
    <<>>,
    <<"n", "/", "a">>,
    <<" ", "S", "e", "p", "t", " ", "2", "0", "2", "0", " ">>,
    <<"S", "p", "r", "i", "n", "g", " ", "2", "0", "2", "0">>,
    <<"s", "i", "n", "c", "e", " ", "1", "1", "/", "2", "0", "1", "9">>,
    <<"1", "3", "/", "2", "0", "2", "1">>,
    <<"2", "0", "2", "1">> \o <<"0">>,
    <<"P", "r", "e", "s", "e", "n", "t", "l", "y">>
}

DateStrings ==
    MonthYearStrings \cup Years \cup UNION {SlashStrings(m, year) : m \in 1..12, year \in Years}
        \cup OpenStrings \cup OtherStrings

NotCalled == "<not called>"

DateInit ==
    /\ dateInput = <<>>
    /\ dateResult = NotCalled
    /\ dateDone = FALSE

CallParseDate ==
    /\ ~dateDone
    /\ dateResult' = parseDate(dateInput)
    /\ dateDone' = TRUE
    /\ UNCHANGED dateInput
    /\ UNCHANGED otherThanDate

\* The caller has the next date string.
NextDateString(str) ==
    /\ dateDone
    /\ dateInput' = str
    /\ dateResult' = NotCalled
    /\ dateDone' = FALSE
    /\ UNCHANGED otherThanDate

DateNext ==
    \/ CallParseDate
    \/ \E str \in DateStrings : NextDateString(str)

(***************************************************************************)
(* convertToResumeData (src/lib/resume-parser/index.ts)                    *)
(***************************************************************************)
\* The decimal digits of a number, as in a template string
RECURSIVE Decimal(_)
Decimal(n) == IF n < 10 THEN <<DigitChars[n + 1]>> ELSE Decimal(n \div 10) \o <<DigitChars[(n % 10) + 1]>>

\* An id that does not depend on the index.
ImportedIdOfFirst(kind, index) == <<"i", "m", "p", "o", "r", "t", "e", "d", "-">> \o kind \o <<"-", "0">>

\* `imported-${kind}-${index}`
ImportedId(kind, index) ==
    <<"i", "m", "p", "o", "r", "t", "e", "d", "-">> \o kind \o <<"-">> \o Decimal(index)

\* convertToResumeData (176-250)
convertToResumeData(parsed) ==
    LET \* x || '' on an optional string
        OrEmpty(x) == IF x = Undefined THEN <<>> ELSE x
        Link(id, type, url, label) == [id |-> id, type |-> type, url |-> url, label |-> label]
        links == <<
            IF OrEmpty(parsed.contact.linkedin) # <<>>
            THEN <<Link("imported-link-linkedin", "linkedin", parsed.contact.linkedin, "LinkedIn")>>
            ELSE <<>>,
            IF OrEmpty(parsed.contact.github) # <<>>
            THEN <<Link("imported-link-github", "github", parsed.contact.github, "GitHub")>>
            ELSE <<>>,
            IF OrEmpty(parsed.contact.website) # <<>>
            THEN <<Link("imported-link-website", "portfolio", parsed.contact.website, "Portfolio")>>
            ELSE <<>> >>
    IN [personal |-> [fullName |-> OrEmpty(parsed.fullName),
                      jobTitle |-> OrEmpty(parsed.jobTitle),
                      email |-> OrEmpty(parsed.contact.email),
                      phone |-> OrEmpty(parsed.contact.phone),
                      location |-> OrEmpty(parsed.contact.location),
                      summary |-> OrEmpty(parsed.summary)],
        experiences |->
            [i \in 1..Len(parsed.experiences) |->
                LET exp == parsed.experiences[i]
                IN [id |-> ImportedId(<<"e", "x", "p">>, i - 1),
                    company |-> exp.company,
                    position |-> exp.position,
                    startDate |-> OrEmpty(exp.startDate),
                    endDate |-> OrEmpty(exp.endDate),
                    \* exp.current || false, undefined being "undefined" here
                    current |-> (exp.current = "true"),
                    description |-> exp.description]],
        education |->
            [i \in 1..Len(parsed.education) |->
                LET edu == parsed.education[i]
                IN [id |-> ImportedId(<<"e", "d", "u">>, i - 1),
                    institution |-> edu.institution,
                    degree |-> edu.degree,
                    field |-> OrEmpty(edu.field),
                    startDate |-> OrEmpty(edu.startDate),
                    endDate |-> OrEmpty(edu.endDate),
                    description |-> OrEmpty(edu.description)]],
        skills |-> parsed.skills,
        projects |->
            [i \in 1..Len(parsed.projects) |->
                LET proj == parsed.projects[i]
                IN [id |-> ImportedId(<<"p", "r", "o", "j">>, i - 1),
                    name |-> proj.name,
                    role |-> proj.role,
                    url |-> proj.url,
                    startDate |-> proj.startDate,
                    endDate |-> proj.endDate,
                    description |-> proj.description,
                    technologies |-> proj.technologies]],
        certifications |->
            [i \in 1..Len(parsed.certifications) |->
                LET cert == parsed.certifications[i]
                IN [id |-> ImportedId(<<"c", "e", "r", "t">>, i - 1),
                    name |-> cert.name,
                    issuer |-> cert.issuer,
                    issueDate |-> cert.issueDate,
                    expiryDate |-> cert.expiryDate,
                    credentialId |-> cert.credentialId,
                    credentialUrl |-> cert.credentialUrl]],
        links |-> links[1] \o links[2] \o links[3]]

(***************************************************************************)
(* Parsed resumes                                                          *)
(***************************************************************************)
ParsedContact(email, phone, location, linkedin, github, website) ==
    [email |-> email, phone |-> phone, location |-> location,
     linkedin |-> linkedin, github |-> github, website |-> website]

NoContact == ParsedContact(Undefined, Undefined, Undefined, Undefined, Undefined, Undefined)

ParsedExperience(company, position, startDate, endDate, current, description, bullets) ==
    [company |-> company, position |-> position, startDate |-> startDate, endDate |-> endDate,
     current |-> current, description |-> description, bullets |-> bullets]

ParsedEducation(institution, degree, field, startDate, endDate, description) ==
    [institution |-> institution, degree |-> degree, field |-> field,
     startDate |-> startDate, endDate |-> endDate, description |-> description]

ParsedProject(name, role, url, startDate, endDate, description, technologies) ==
    [name |-> name, role |-> role, url |-> url, startDate |-> startDate, endDate |-> endDate,
     description |-> description, technologies |-> technologies]

ParsedCertification(name, issuer, issueDate, expiryDate, credentialId, credentialUrl) ==
    [name |-> name, issuer |-> issuer, issueDate |-> issueDate, expiryDate |-> expiryDate,
     credentialId |-> credentialId, credentialUrl |-> credentialUrl]

\* A ParsedResume without rawText and parseInfo, which convertToResumeData
\* does not read.
ParsedOf(fullName, jobTitle, contact, summary) ==
    [fullName |-> fullName, jobTitle |-> jobTitle, contact |-> contact, summary |-> summary,
     experiences |-> <<>>, education |-> <<>>, skills |-> <<>>, projects |-> <<>>,
     certifications |-> <<>>]

EmptyParsed == ParsedOf(Undefined, Undefined, NoContact, Undefined)

ParsedHeads == {
    EmptyParsed,
    ParsedOf(NameJane, JobTitle,
             ParsedContact(Email, Phone, Undefined, <<"l", "i", "n", "k", "e", "d", "i", "n", ".", "c", "o", "m", "/", "i", "n", "/", "j", "a", "n", "e">>, Undefined, Undefined),
             SummaryShort)
}

ParsedExperiences == {
    ParsedExperience(<<"A", "c", "m", "e", " ", "I", "n", "c">>, <<"E", "n", "g", "i", "n", "e", "e", "r">>, <<"2", "0", "2", "0", "-", "0", "1">>, Undefined, "true",
                     ExpShort.description, <<>>),
    ParsedExperience(<<"I", "n", "i", "t", "e", "c", "h">>, <<"A", "n", "a", "l", "y", "s", "t">>, Undefined, Undefined, "undefined",
                     <<>>, <<>>)
}

ParsedEducations == {
    ParsedEducation(<<"M", "I", "T">>, <<"B", "a", "c", "h", "e", "l", "o", "r", " ", "o", "f", " ", "S", "c", "i", "e", "n", "c", "e">>, Undefined, Undefined, Undefined, Undefined),
    ParsedEducation(<<"E", "T", "H">>, <<"M", "S", "c">>, <<"P", "h", "y", "s", "i", "c", "s">>, <<"2", "0", "1", "6", "-", "0", "1">>, <<"2", "0", "1", "8", "-", "0", "1">>, <<>>)
}

ParsedProjects == {
    ParsedProject(ProjectPortal.name, Undefined, Undefined, Undefined, Undefined, <<>>, <<>>),
    ParsedProject(<<"S", "o", "l", "v", "e", "r">>, Undefined, <<"h", "t", "t", "p", "s", ":", "/", "/", "g", "i", "t", "h", "u", "b", ".", "c", "o", "m", "/", "j", "a", "n", "e", "/", "a", "p", "p">>, Undefined, Undefined,
                  <<>>, <<SkillGo>>)
}

ParsedCertifications == {
    ParsedCertification(<<"A", "W", "S", " ", "S", "A">>, <<"A", "m", "a", "z", "o", "n">>, Undefined, Undefined, Undefined, Undefined),
    ParsedCertification(<<"C", "K", "A">>, <<>>, <<"2", "0", "2", "2", "-", "0", "3">>, Undefined, Undefined, Undefined)
}

MaxEntries == 2

ConvInit ==
    /\ convInput = EmptyParsed
    /\ convResult = NotCalled
    /\ convDone = FALSE

\* The parser found one more entry of a section.
PushExperience(exp) ==
    /\ Len(convInput.experiences) < MaxEntries
    /\ convInput' = [convInput EXCEPT !.experiences = Append(@, exp)]
    /\ convDone' = FALSE /\ convResult' = NotCalled
    /\ UNCHANGED otherThanConv

PushEducation(edu) ==
    /\ Len(convInput.education) < MaxEntries
    /\ convInput' = [convInput EXCEPT !.education = Append(@, edu)]
    /\ convDone' = FALSE /\ convResult' = NotCalled
    /\ UNCHANGED otherThanConv

PushProject(proj) ==
    /\ Len(convInput.projects) < MaxEntries
    /\ convInput' = [convInput EXCEPT !.projects = Append(@, proj)]
    /\ convDone' = FALSE /\ convResult' = NotCalled
    /\ UNCHANGED otherThanConv

PushCertification(cert) ==
    /\ Len(convInput.certifications) < MaxEntries
    /\ convInput' = [convInput EXCEPT !.certifications = Append(@, cert)]
    /\ convDone' = FALSE /\ convResult' = NotCalled
    /\ UNCHANGED otherThanConv

CallConvertToResumeData ==
    /\ convResult' = convertToResumeData(convInput)
    /\ convDone' = TRUE
    /\ UNCHANGED convInput
    /\ UNCHANGED otherThanConv

ConvNext ==
    \/ \E exp \in ParsedExperiences : PushExperience(exp)
    \/ \E edu \in ParsedEducations : PushEducation(edu)
    \/ \E proj \in ParsedProjects : PushProject(proj)
    \/ \E cert \in ParsedCertifications : PushCertification(cert)
    \/ CallConvertToResumeData

(***************************************************************************)
(* Regular expressions, as the parsers use them: a pattern is a tree, and  *)
(* matching tries the alternatives in the order of a backtracking matcher  *)
(* (leftmost start, alternatives left to right, quantifiers greedy).       *)
(***************************************************************************)
Smalls == WordChars \ (Digits \cup {"_"})

\* \s
Whitespaces == {" ", "\t", "\n", "\r"}

\* \w
WordClass == WordChars \cup Capitals

Chr(set) == [op |-> "chr", set |-> set, neg |-> FALSE]
NotChr(set) == [op |-> "chr", set |-> set, neg |-> TRUE]
Str(chars) == [op |-> "str", s |-> chars]
Cat(rs) == [op |-> "cat", rs |-> rs]
Alt(rs) == [op |-> "alt", rs |-> rs]
\* r{min,max}, max = -1 for no upper limit
Rep(r, min, max) == [op |-> "rep", r |-> r, min |-> min, max |-> max]
\* the n-th capturing group
Grp(n, r) == [op |-> "grp", n |-> n, r |-> r]
Bol == [op |-> "bol"]
Eol == [op |-> "eol"]
\* \b
Wb == [op |-> "wb"]

\* A character against a class, under the i flag or not
InClass(c, set, ic) == c \in set \/ (ic /\ \E d \in set : ToLowerChar(d) = ToLowerChar(c))

IsWordAt(s, i) == i >= 1 /\ i <= Len(s) /\ s[i] \in WordClass

\* The ways pattern r matches s from the state st (the position of the next
\* character and the groups captured so far), in the order in which a
\* backtracking matcher finds them.
RECURSIVE Matches(_, _, _, _)
RECURSIVE MatchesCat(_, _, _, _, _)
RECURSIVE MatchesRep(_, _, _, _, _)
Matches(r, s, st, ic) ==
    CASE r.op = "chr" ->
            IF st.pos <= Len(s) /\ (InClass(s[st.pos], r.set, ic) # r.neg)
            THEN <<[st EXCEPT !.pos = @ + 1]>>
            ELSE <<>>
      [] r.op = "str" ->
            IF /\ st.pos + Len(r.s) - 1 <= Len(s)
               /\ \A k \in 1..Len(r.s) : InClass(s[st.pos + k - 1], {r.s[k]}, ic)
            THEN <<[st EXCEPT !.pos = @ + Len(r.s)]>>
            ELSE <<>>
      [] r.op = "cat" -> MatchesCat(r.rs, 1, s, <<st>>, ic)
      [] r.op = "alt" -> Concat([k \in 1..Len(r.rs) |-> Matches(r.rs[k], s, st, ic)])
      [] r.op = "rep" ->
            IF r.r.op = "chr"
            THEN \* a run of characters of one class: the longest first
                 LET limit == IF r.max < 0 THEN Len(s) - st.pos + 1
                              ELSE Min(r.max, Len(s) - st.pos + 1)
                     run == Cardinality({k \in 1..limit :
                                \A j \in 1..k : InClass(s[st.pos + j - 1], r.r.set, ic) # r.r.neg})
                 IN [k \in 1..(run - r.min + 1) |-> [st EXCEPT !.pos = @ + run - k + 1]]
            ELSE MatchesRep(r, s, st, ic, 0)
      [] r.op = "grp" ->
            LET inner == Matches(r.r, s, st, ic)
            IN [k \in 1..Len(inner) |->
                    [inner[k] EXCEPT !.caps = (r.n :> <<st.pos, inner[k].pos>>) @@ @]]
      [] r.op = "bol" -> IF st.pos = 1 THEN <<st>> ELSE <<>>
      [] r.op = "eol" -> IF st.pos = Len(s) + 1 THEN <<st>> ELSE <<>>
      [] r.op = "wb" -> IF IsWordAt(s, st.pos - 1) # IsWordAt(s, st.pos) THEN <<st>> ELSE <<>>

MatchesCat(rs, k, s, sts, ic) ==
    IF k > Len(rs) \/ sts = <<>> THEN sts
    ELSE MatchesCat(rs, k + 1, s, Concat([j \in 1..Len(sts) |-> Matches(rs[k], s, sts[j], ic)]), ic)

\* count iterations of r.r are done: one more (a longer match comes first), or none
MatchesRep(r, s, st, ic, count) ==
    LET once == IF r.max >= 0 /\ count >= r.max THEN <<>>
                ELSE SelectSeq(Matches(r.r, s, st, ic), LAMBDA t : t.pos > st.pos)
    IN Concat([k \in 1..Len(once) |-> MatchesRep(r, s, once[k], ic, count + 1)])
          \o (IF count >= r.min THEN <<st>> ELSE <<>>)

NoMatch == [found |-> FALSE]

\* The match of r in s that starts at position i, if there is one
MatchAt(r, s, ic, i) ==
    LET ways == Matches(r, s, [pos |-> i, caps |-> <<>>], ic)
    IN IF ways = <<>> THEN NoMatch
       ELSE [found |-> TRUE, index |-> i, end |-> ways[1].pos, caps |-> ways[1].caps]

\* The least position of lo..hi at which a match of r in s starts, or 0 for
\* none: the lower half of the positions is searched before the upper half.
RECURSIVE FirstStart(_, _, _, _, _)
RECURSIVE FirstStartOr(_, _, _, _, _, _)
FirstStart(r, s, ic, lo, hi) ==
    IF lo > hi THEN 0
    ELSE IF lo = hi THEN (IF MatchAt(r, s, ic, lo).found THEN lo ELSE 0)
    ELSE FirstStartOr(FirstStart(r, s, ic, lo, (lo + hi) \div 2), r, s, ic,
                      (lo + hi) \div 2 + 1, hi)

FirstStartOr(lower, r, s, ic, lo, hi) ==
    IF lower # 0 THEN lower ELSE FirstStart(r, s, ic, lo, hi)

MatchFrom(r, s, ic, i) == IF i = 0 THEN NoMatch ELSE MatchAt(r, s, ic, i)

\* The first match of r in s that starts at position from or later (end is
\* the position behind the match)
Exec(r, s, ic, from) == MatchFrom(r, s, ic, FirstStart(r, s, ic, from, Len(s) + 1))

\* RegExp.prototype.test and String.prototype.match without the g flag
Test(r, s, ic) == Exec(r, s, ic, 1).found

\* m[0] and m[n]
Matched(s, m) == SubSeq(s, m.index, m.end - 1)
Group(s, m, n) ==
    IF n \in DOMAIN m.caps THEN SubSeq(s, m.caps[n][1], m.caps[n][2] - 1) ELSE Undefined

\* String.prototype.match with the g flag: the matches one after the other
RECURSIVE MatchAll(_, _, _, _)
MatchAll(r, s, ic, from) ==
    LET m == Exec(r, s, ic, from)
    IN IF from > Len(s) + 1 \/ ~m.found THEN <<>>
       ELSE <<Matched(s, m)>> \o MatchAll(r, s, ic, IF m.end = m.index THEN m.end + 1 ELSE m.end)

\* String.prototype.replace(r, '') without the g flag
RemoveFirst(r, s, ic) ==
    LET m == Exec(r, s, ic, 1)
    IN IF m.found THEN SubSeq(s, 1, m.index - 1) \o SubSeq(s, m.end, Len(s)) ELSE s

\* String.prototype.split(r): p is the start of the piece being read, q the
\* position at which a separator is tried
RECURSIVE SplitFrom(_, _, _, _, _)
SplitFrom(r, s, ic, p, q) ==
    IF q > Len(s) THEN <<SubSeq(s, p, Len(s))>>
    ELSE LET m == MatchAt(r, s, ic, q)
         IN IF ~m.found \/ Min(m.end, Len(s) + 1) = p THEN SplitFrom(r, s, ic, p, q + 1)
            ELSE <<SubSeq(s, p, q - 1)>> \o SplitFrom(r, s, ic, m.end, m.end)

Split(r, s, ic) ==
    IF s = <<>> THEN (IF MatchAt(r, s, ic, 1).found THEN <<>> ELSE << <<>> >>)
    ELSE SplitFrom(r, s, ic, 1, 1)


(***************************************************************************)
(* parseSkills (section-detector.ts)                                       *)
(***************************************************************************)
\* The character U+00B7 (a middle dot).
MiddleDot == "U+00B7"

\* delimiters (341)
delimiters == <<",", "|", Bullet, MiddleDot, "\n", ";">>

\* String.prototype.split(separator) for a separator of one character
SplitAt(s, separator) ==
    LET at == SelectSeq([i \in 1..Len(s) |-> i], LAMBDA i : s[i] = separator)
    IN [k \in 1..(Len(at) + 1) |->
           SubSeq(s, IF k = 1 THEN 1 ELSE at[k - 1] + 1,
                     IF k = Len(at) + 1 THEN Len(s) ELSE at[k] - 1)]

\* .map((s) => s.trim()).filter(Boolean)
TrimmedItems(parts) ==
    SelectSeq([k \in 1..Len(parts) |-> TrimWhitespace(parts[k])], LAMBDA item : Len(item) > 0)

\* /^(skills|technical|core|areas)/i
SkillsHeadingPattern ==
    Cat(<<Bol, Alt(<<Str(<<"s", "k", "i", "l", "l", "s">>), Str(<<"t", "e", "c", "h", "n", "i", "c", "a", "l">>), Str(<<"c", "o", "r", "e">>), Str(<<"a", "r", "e", "a", "s">>)>>)>>)

MaxItemLength == 50

\* The test of validItems (350-352)
IsValidItem(item) ==
    Len(item) > 1 /\ Len(item) < MaxItemLength /\ ~Test(SkillsHeadingPattern, item, TRUE)

\* validItems for one delimiter (345-352)
validItems(content, delimiter) == SelectSeq(TrimmedItems(SplitAt(content, delimiter)), IsValidItem)

\* The loop over the delimiters from the k-th on (343-358), skills being the
\* list kept so far.
RECURSIVE SkillsLoop(_, _, _)
SkillsLoop(content, k, skills) ==
    IF k > Len(delimiters) THEN skills
    ELSE IF /\ \E i \in 1..Len(content) : content[i] = delimiters[k]
            /\ Len(validItems(content, delimiters[k])) > Len(skills)
         THEN SkillsLoop(content, k + 1, validItems(content, delimiters[k]))
         ELSE SkillsLoop(content, k + 1, skills)

\* parseSkills(content) (337-362)
parseSkills(content) == AddAll(SkillsLoop(content, 1, <<>>))

(***************************************************************************)
(* Calls of parseSkills. The content is what parseResumeText passes        *)
(* (index.ts 123-125): the content of a skills section as detectSections   *)
(* cut it, the heading line first.                                         *)
(***************************************************************************)
HeadingSkills == <<"S", "K", "I", "L", "L", "S">>
HeadingTechnicalSkills == <<"T", "e", "c", "h", "n", "i", "c", "a", "l", " ", "S", "k", "i", "l", "l", "s">>
HeadingKeySkills == <<"K", "e", "y", " ", "S", "k", "i", "l", "l", "s">>

SkillHeadings == {HeadingSkills, HeadingTechnicalSkills, HeadingKeySkills}

\* The skills of a resume, as listed under the heading
SkillRows == {<<SkillPython, SkillGo, SkillSql>>,
              <<SkillGo, SkillSql>>,
              <<SkillPython>>,
              <<SkillSql, SkillPython, SkillRust, SkillGo>>,
              <<SkillRust, SkillGo, SkillGo, SkillDocker>>}

\* What stands between two skills of a list
SkillSeparators == {<<",", " ">>, <<" ", "|", " ">>, <<" ", Bullet, " ">>, <<" ", MiddleDot, " ">>,
                    <<"\n">>, <<";", " ">>, <<"\n", "-", " ">>}

\* The content of a skills section: the heading line and the list
SkillsContent(heading, row, separator) == heading \o <<"\n">> \o Join(row, separator)

SkillContents ==
    {SkillsContent(h, row, sep) : h \in SkillHeadings, row \in SkillRows, sep \in SkillSeparators}

\* The skills section of the sample resume: "SKILLS", then "Python, Go, SQL"
SampleSkills == SkillsContent(HeadingSkills, <<SkillPython, SkillGo, SkillSql>>, <<",", " ">>)

SkillInit ==
    /\ skillsInput = SampleSkills
    /\ skillsResult = <<>>
    /\ skillsDone = FALSE

\* parseSkills(skillsInput)
CallParseSkills ==
    /\ ~skillsDone
    /\ skillsResult' = parseSkills(skillsInput)
    /\ skillsDone' = TRUE
    /\ UNCHANGED skillsInput
    /\ UNCHANGED otherThanSkill

\* The next resume's skills section
NextSkillsContent(content) ==
    /\ skillsInput' = content
    /\ skillsResult' = <<>>
    /\ skillsDone' = FALSE
    /\ UNCHANGED otherThanSkill

SkillNext ==
    \/ CallParseSkills
    \/ \E content \in SkillContents : NextSkillsContent(content)


(***************************************************************************)
(* The extractors of the header (section-detector.ts): extractName,        *)
(* extractJobTitle, extractContactInfo. A value that may be undefined is   *)
(* Undefined or a text.                                                    *)
(***************************************************************************)
\* What an if takes for true: a string that is neither undefined nor empty
Truthy(v) == v # Undefined /\ v # <<>>

\* text.split('\n').map((l) => l.trim()).filter(Boolean)
TrimmedLines(text) == TrimmedItems(SplitAt(text, "\n"))

MatchedOf(s, m) == IF m.found THEN Matched(s, m) ELSE Undefined

GroupOf(s, m, n) == IF m.found THEN Group(s, m, n) ELSE Undefined

\* m[0] of the first match of the pattern, or undefined
FirstMatch(r, s, ic) == MatchedOf(s, Exec(r, s, ic, 1))

\* m[n] of the first match of the pattern, or undefined
FirstGroup(r, s, ic, n) == GroupOf(s, Exec(r, s, ic, 1), n)

\* /^[A-Z][a-z]+(\s+[A-Z][a-z]+){1,3}$/ (276)
NamePattern ==
    Cat(<<Bol, Chr(Capitals), Rep(Chr(Smalls), 1, -1), Rep(Cat(<<Rep(Chr(Whitespaces), 1, -1), Chr(Capitals), Rep(Chr(Smalls), 1, -1)>>), 1, 3), Eol>>)

\* /^name:\s*(.+)$/i (281)
NameLabelPattern ==
    Cat(<<Bol, Str(<<"n", "a", "m", "e", ":">>), Rep(Chr(Whitespaces), 0, -1), Grp(1, Rep(NotChr({"\n", "\r"}), 1, -1)), Eol>>)

\* The name a first line gives (276-284)
NameOf(firstLine) ==
    IF Test(NamePattern, firstLine, FALSE) THEN firstLine
    ELSE IF Test(NameLabelPattern, firstLine, TRUE)
         THEN TrimWhitespace(FirstGroup(NameLabelPattern, firstLine, TRUE, 1))
         ELSE Undefined

\* extractName (265-288)
extractName(text) ==
    IF TrimmedLines(text) = <<>> THEN Undefined ELSE NameOf(TrimmedLines(text)[1])

\* titleKeywords (300-314)
titleKeywords == <<
    <<"e", "n", "g", "i", "n", "e", "e", "r">>,
    <<"d", "e", "v", "e", "l", "o", "p", "e", "r">>,
    <<"m", "a", "n", "a", "g", "e", "r">>,
    <<"d", "e", "s", "i", "g", "n", "e", "r">>,
    <<"a", "n", "a", "l", "y", "s", "t">>,
    <<"c", "o", "n", "s", "u", "l", "t", "a", "n", "t">>,
    <<"s", "p", "e", "c", "i", "a", "l", "i", "s", "t">>,
    <<"l", "e", "a", "d">>,
    <<"d", "i", "r", "e", "c", "t", "o", "r">>,
    <<"a", "r", "c", "h", "i", "t", "e", "c", "t">>,
    <<"a", "d", "m", "i", "n", "i", "s", "t", "r", "a", "t", "o", "r">>,
    <<"c", "o", "o", "r", "d", "i", "n", "a", "t", "o", "r">>,
    <<"e", "x", "e", "c", "u", "t", "i", "v", "e">> >>

\* A TypeError leaves the function: lines[-1] is undefined and toLowerCase
\* is called on it
TypeErrorThrown == <<"TypeError">>

\* lines.findIndex((l) => l.toLowerCase().includes(name.toLowerCase())),
\* counted from 0, -1 for no such line
FindIndex(lines, name) ==
    LET found == {i \in 1..Len(lines) : Includes(ToLowerCase(lines[i]), ToLowerCase(name))}
    IN IF found = {} THEN -1 ELSE (CHOOSE i \in found : \A j \in found : i <= j) - 1

\* The first of the lines startIndex, startIndex + 1, startIndex + 2 (counted
\* from 0) that holds a title keyword (324-331)
TitleFrom(lines, startIndex) ==
    LET titled == {i \in startIndex..(Min(startIndex + 3, Len(lines)) - 1) :
                      \E k \in 1..Len(titleKeywords) :
                          Includes(ToLowerCase(lines[i + 1]), titleKeywords[k])}
    IN IF startIndex < 0 THEN TypeErrorThrown
       ELSE IF titled = {} THEN Undefined
       ELSE lines[(CHOOSE i \in titled : \A j \in titled : i <= j) + 1]

\* extractJobTitle (293-332)
extractJobTitle(text, name) ==
    TitleFrom(TrimmedLines(text),
              IF ~Truthy(name) THEN 0
              ELSE IF FindIndex(TrimmedLines(text), name) >= 0
                   THEN FindIndex(TrimmedLines(text), name) + 1
                   ELSE FindIndex(TrimmedLines(text), name))

\* EMAIL_PATTERN (56)
EMAIL_PATTERN ==
    Cat(<<Wb, Rep(Chr(Capitals \cup Smalls \cup Digits \cup {".", "_", "%", "+", "-"}), 1, -1), Str(<<"@">>), Rep(Chr(Capitals \cup Smalls \cup Digits \cup {".", "-"}), 1, -1), Str(<<".">>), Rep(Chr(Capitals \cup Smalls \cup {"|"}), 2, -1), Wb>>)

\* PHONE_PATTERNS (59-62)
PHONE_PATTERNS == <<
    Cat(<<Wb, Rep(Str(<<"+">>), 0, 1), Rep(Str(<<"1">>), 0, 1), Rep(Chr(Whitespaces \cup {"-", "."}), 0, 1), Rep(Str(<<"(">>), 0, 1), Rep(Chr(Digits), 3, 3), Rep(Str(<<")">>), 0, 1), Rep(Chr(Whitespaces \cup {"-", "."}), 0, 1), Rep(Chr(Digits), 3, 3), Rep(Chr(Whitespaces \cup {"-", "."}), 0, 1), Rep(Chr(Digits), 4, 4), Wb>>),
    Cat(<<Wb, Rep(Str(<<"+">>), 0, 1), Rep(Chr(Digits), 1, 3), Rep(Chr(Whitespaces \cup {"-", "."}), 0, 1), Rep(Chr(Digits), 2, 4), Rep(Chr(Whitespaces \cup {"-", "."}), 0, 1), Rep(Chr(Digits), 3, 4), Rep(Chr(Whitespaces \cup {"-", "."}), 0, 1), Rep(Chr(Digits), 3, 4), Wb>>) >>

\* URL_PATTERN (65); "U+0060" is the grave accent
URL_PATTERN ==
    Cat(<<Str(<<"h", "t", "t", "p">>), Rep(Str(<<"s">>), 0, 1), Str(<<":", "/", "/">>), Rep(NotChr(Whitespaces \cup {"<", ">", "\"", "{", "}", "|", "\\", "^", "U+0060", "[", "]"}), 1, -1)>>)

\* LINKEDIN_PATTERN (66)
LINKEDIN_PATTERN ==
    Cat(<<Str(<<"l", "i", "n", "k", "e", "d", "i", "n", ".", "c", "o", "m", "/", "i", "n", "/">>), Rep(Chr(WordClass \cup {"-"}), 1, -1)>>)

\* GITHUB_PATTERN (67)
GITHUB_PATTERN ==
    Cat(<<Str(<<"g", "i", "t", "h", "u", "b", ".", "c", "o", "m", "/">>), Rep(Chr(WordClass \cup {"-"}), 1, -1)>>)

\* locationPattern (252)
locationPattern ==
    Cat(<<Wb, Cat(<<Chr(Capitals), Rep(Chr(Smalls), 1, -1), Rep(Cat(<<Chr(Whitespaces), Chr(Capitals), Rep(Chr(Smalls), 1, -1)>>), 0, -1)>>), Str(<<",">>), Rep(Chr(Whitespaces), 0, -1), Rep(Chr(Capitals), 2, 2), Wb>>)

HttpsPrefix == <<"h", "t", "t", "p", "s", ":", "/", "/">>
LinkedinHost == <<"l", "i", "n", "k", "e", "d", "i", "n", ".", "c", "o", "m">>
GithubHost == <<"g", "i", "t", "h", "u", "b", ".", "c", "o", "m">>

\* 'https://' and match[0], or undefined without a match (231-240)
ProfileUrl(found) == IF found = Undefined THEN Undefined ELSE HttpsPrefix \o found

\* The phone number: the first match of the first pattern that matches (222-228)
PhoneOr(found, text) ==
    IF found # Undefined THEN found ELSE FirstMatch(PHONE_PATTERNS[2], text, FALSE)

PhoneOf(text) == PhoneOr(FirstMatch(PHONE_PATTERNS[1], text, FALSE), text)

\* The first URL that is neither a LinkedIn nor a GitHub address (243-249)
WebsiteOf(urls) ==
    LET others == SelectSeq(urls, LAMBDA url : ~Includes(url, LinkedinHost) /\ ~Includes(url, GithubHost))
    IN IF others = <<>> THEN Undefined ELSE others[1]

\* extractContactInfo (205-259)
extractContactInfo(text) ==
    [email |-> FirstMatch(EMAIL_PATTERN, text, FALSE),
     phone |-> PhoneOf(text),
     linkedin |-> ProfileUrl(FirstMatch(LINKEDIN_PATTERN, text, TRUE)),
     github |-> ProfileUrl(FirstMatch(GITHUB_PATTERN, text, TRUE)),
     website |-> WebsiteOf(MatchAll(URL_PATTERN, text, TRUE, 1)),
     location |-> FirstMatch(locationPattern, text, FALSE)]


(***************************************************************************)
(* parseExperiences (content-parser.ts). An optional boolean is "true",    *)
(* "false" or "undefined".                                                 *)
(***************************************************************************)
\* The characters U+2013 and U+2014 (en dash, em dash) are "U+2013" and "U+2014".
\* /^(professional\s*)?experience|work\s*history|employment/i (21)
ExperienceHeadingPattern ==
    Alt(<<Cat(<<Bol, Rep(Cat(<<Str(<<"p", "r", "o", "f", "e", "s", "s", "i", "o", "n", "a", "l">>), Rep(Chr(Whitespaces), 0, -1)>>), 0, 1), Str(<<"e", "x", "p", "e", "r", "i", "e", "n", "c", "e">>)>>), Cat(<<Str(<<"w", "o", "r", "k">>), Rep(Chr(Whitespaces), 0, -1), Str(<<"h", "i", "s", "t", "o", "r", "y">>)>>), Str(<<"e", "m", "p", "l", "o", "y", "m", "e", "n", "t">>)>>)

\* dateRangePattern (26-27)
dateRangePattern ==
    Cat(<<Wb, Alt(<<Cat(<<Str(<<"j", "a", "n">>), Rep(Str(<<"u", "a", "r", "y">>), 0, 1)>>), Cat(<<Str(<<"f", "e", "b">>), Rep(Str(<<"r", "u", "a", "r", "y">>), 0, 1)>>), Cat(<<Str(<<"m", "a", "r">>), Rep(Str(<<"c", "h">>), 0, 1)>>), Cat(<<Str(<<"a", "p", "r">>), Rep(Str(<<"i", "l">>), 0, 1)>>), Str(<<"m", "a", "y">>), Cat(<<Str(<<"j", "u", "n">>), Rep(Str(<<"e">>), 0, 1)>>), Cat(<<Str(<<"j", "u", "l">>), Rep(Str(<<"y">>), 0, 1)>>), Cat(<<Str(<<"a", "u", "g">>), Rep(Str(<<"u", "s", "t">>), 0, 1)>>), Cat(<<Str(<<"s", "e", "p">>), Rep(Cat(<<Str(<<"t">>), Rep(Str(<<"e", "m", "b", "e", "r">>), 0, 1)>>), 0, 1)>>), Cat(<<Str(<<"o", "c", "t">>), Rep(Str(<<"o", "b", "e", "r">>), 0, 1)>>), Cat(<<Str(<<"n", "o", "v">>), Rep(Str(<<"e", "m", "b", "e", "r">>), 0, 1)>>), Cat(<<Str(<<"d", "e", "c">>), Rep(Str(<<"e", "m", "b", "e", "r">>), 0, 1)>>), Cat(<<Rep(Chr(Digits), 1, 2), Str(<<"/">>), Rep(Chr(Digits), 4, 4)>>), Rep(Chr(Digits), 4, 4)>>), Rep(Chr(Whitespaces), 0, -1), Chr({"-", "U+2013", "U+2014"}), Rep(Chr(Whitespaces), 0, -1), Alt(<<Str(<<"p", "r", "e", "s", "e", "n", "t">>), Str(<<"c", "u", "r", "r", "e", "n", "t">>), Cat(<<Str(<<"j", "a", "n">>), Rep(Str(<<"u", "a", "r", "y">>), 0, 1)>>), Cat(<<Str(<<"f", "e", "b">>), Rep(Str(<<"r", "u", "a", "r", "y">>), 0, 1)>>), Cat(<<Str(<<"m", "a", "r">>), Rep(Str(<<"c", "h">>), 0, 1)>>), Cat(<<Str(<<"a", "p", "r">>), Rep(Str(<<"i", "l">>), 0, 1)>>), Str(<<"m", "a", "y">>), Cat(<<Str(<<"j", "u", "n">>), Rep(Str(<<"e">>), 0, 1)>>), Cat(<<Str(<<"j", "u", "l">>), Rep(Str(<<"y">>), 0, 1)>>), Cat(<<Str(<<"a", "u", "g">>), Rep(Str(<<"u", "s", "t">>), 0, 1)>>), Cat(<<Str(<<"s", "e", "p">>), Rep(Cat(<<Str(<<"t">>), Rep(Str(<<"e", "m", "b", "e", "r">>), 0, 1)>>), 0, 1)>>), Cat(<<Str(<<"o", "c", "t">>), Rep(Str(<<"o", "b", "e", "r">>), 0, 1)>>), Cat(<<Str(<<"n", "o", "v">>), Rep(Str(<<"e", "m", "b", "e", "r">>), 0, 1)>>), Cat(<<Str(<<"d", "e", "c">>), Rep(Str(<<"e", "m", "b", "e", "r">>), 0, 1)>>), Cat(<<Rep(Chr(Digits), 1, 2), Str(<<"/">>), Rep(Chr(Digits), 4, 4)>>), Rep(Chr(Digits), 4, 4)>>), Wb>>)

\* /\s*[-–—]\s*/ (46)
DashPattern ==
    Cat(<<Rep(Chr(Whitespaces), 0, -1), Chr({"-", "U+2013", "U+2014"}), Rep(Chr(Whitespaces), 0, -1)>>)

\* /present|current/i (49)
PresentPattern ==
    Alt(<<Str(<<"p", "r", "e", "s", "e", "n", "t">>), Str(<<"c", "u", "r", "r", "e", "n", "t">>)>>)

\* /\s+at\s+|\s*[|,]\s*/i (61)
SeparatorPattern ==
    Alt(<<Cat(<<Rep(Chr(Whitespaces), 1, -1), Str(<<"a", "t">>), Rep(Chr(Whitespaces), 1, -1)>>), Cat(<<Rep(Chr(Whitespaces), 0, -1), Chr({"|", ","}), Rep(Chr(Whitespaces), 0, -1)>>)>>)

\* /^[•\-*•]/ (77)
BulletStartPattern ==
    Cat(<<Bol, Chr({"U+2022", "-", "*"})>>)

\* /^[•\-*•]\s*/ (100-101)
BulletPattern ==
    Cat(<<Bol, Chr({"U+2022", "-", "*"}), Rep(Chr(Whitespaces), 0, -1)>>)

\* /\b(inc|llc|ltd|corp|company|technologies|solutions|group|services)\b/i (93)
CompanyPattern ==
    Cat(<<Wb, Alt(<<Str(<<"i", "n", "c">>), Str(<<"l", "l", "c">>), Str(<<"l", "t", "d">>), Str(<<"c", "o", "r", "p">>), Str(<<"c", "o", "m", "p", "a", "n", "y">>), Str(<<"t", "e", "c", "h", "n", "o", "l", "o", "g", "i", "e", "s">>), Str(<<"s", "o", "l", "u", "t", "i", "o", "n", "s">>), Str(<<"g", "r", "o", "u", "p">>), Str(<<"s", "e", "r", "v", "i", "c", "e", "s">>)>>), Wb>>)

UnknownCompany == <<"U", "n", "k", "n", "o", "w", "n", " ", "C", "o", "m", "p", "a", "n", "y">>
UnknownPosition == <<"U", "n", "k", "n", "o", "w", "n", " ", "P", "o", "s", "i", "t", "i", "o", "n">>

\* finalizeExperience (122-132)
finalizeExperience(exp, bullets) ==
    ParsedExperience(IF exp.company # <<>> THEN exp.company ELSE UnknownCompany,
                     IF exp.position # <<>> THEN exp.position ELSE UnknownPosition,
                     exp.startDate, exp.endDate,
                     IF exp.current THEN "true" ELSE "false",
                     Join(bullets, <<"\n">>), bullets)

\* parseDate of a part of the date range that may be missing
DateOf(part) == IF part = Undefined THEN Undefined ELSE parseDate(part)

\* The dates of the range, with current never set.
DateRangeOfClosed(parts) ==
    [startDate |-> DateOf(parts[1]),
     endDate |-> DateOf(IF Len(parts) >= 2 THEN parts[2] ELSE Undefined),
     current |-> FALSE]

\* The dates of the range split at the dash (46-49)
DateRangeOf(parts) ==
    [startDate |-> DateOf(parts[1]),
     endDate |-> DateOf(IF Len(parts) >= 2 THEN parts[2] ELSE Undefined),
     current |-> Len(parts) >= 2 /\ Test(PresentPattern, parts[2], TRUE)]

\* position and company from what stands before the date, split at " at ",
\* "|" or "," (59-68)
Named(beforeDate, parts) ==
    IF beforeDate = <<>> THEN [position |-> <<>>, company |-> <<>>]
    ELSE IF Len(parts) >= 2
         THEN [position |-> TrimWhitespace(parts[1]), company |-> TrimWhitespace(parts[2])]
         ELSE [position |-> beforeDate, company |-> <<>>]

\* ... and from what stands behind the date and from the line before, which
\* is Undefined for the first line read (70-80)
NamedWith(named, afterDate, prevLine) ==
    [position |-> IF /\ named.position = <<>>
                     /\ prevLine # Undefined
                     /\ ~Test(dateRangePattern, prevLine, TRUE)
                     /\ ~Test(BulletStartPattern, prevLine, FALSE)
                  THEN prevLine ELSE named.position,
     company |-> IF afterDate # <<>> /\ named.company = <<>> THEN afterDate ELSE named.company]

\* currentExp of a line with a date range (82-89)
ExperienceOf(named, dates) ==
    [position |-> named.position, company |-> named.company, startDate |-> dates.startDate,
     endDate |-> IF dates.current THEN <<>> ELSE dates.endDate, current |-> dates.current]

\* The entry the line with the date range dateMatch opens (44-89)
NewExperience(line, dateMatch, prevLine) ==
    ExperienceOf(
        NamedWith(Named(TrimWhitespace(SubSeq(line, 1, dateMatch.index - 1)),
                        Split(SeparatorPattern, TrimWhitespace(SubSeq(line, 1, dateMatch.index - 1)), TRUE)),
                  TrimWhitespace(SubSeq(line, dateMatch.end, Len(line))),
                  prevLine),
        DateRangeOf(Split(DashPattern, Matched(line, dateMatch), FALSE)))

\* The state of the loop of parseExperiences: the entries pushed, whether
\* currentExp is set and what it is, and the bullets collected
NoExperience == [position |-> <<>>, company |-> <<>>, startDate |-> Undefined,
                 endDate |-> Undefined, current |-> FALSE]

ExperienceStart == [experiences |-> <<>>, has |-> FALSE, currentExp |-> NoExperience, bullets |-> <<>>]

\* The entry so far is pushed if it has a company or a position (39-42, 115-117)
IsNamed(st) == st.has /\ (st.currentExp.company # <<>> \/ st.currentExp.position # <<>>)

\* A line with a date range: the entry so far is saved and the bullets are
\* emptied, if it is pushed, and the line's entry is the current one (37-89)
Opened(st, exp) ==
    [experiences |-> IF IsNamed(st)
                     THEN Append(st.experiences, finalizeExperience(st.currentExp, st.bullets))
                     ELSE st.experiences,
     has |-> TRUE,
     currentExp |-> exp,
     bullets |-> IF IsNamed(st) THEN <<>> ELSE st.bullets]

\* A line without date range behind an entry's line (90-111)
Continued(st, line) ==
    IF /\ st.currentExp.company = <<>>
       /\ line[1] \notin {Bullet, "-", "*"}
       /\ Test(CompanyPattern, line, TRUE)
    THEN [st EXCEPT !.currentExp.company = line]
    ELSE IF Test(BulletPattern, line, FALSE)
    THEN [st EXCEPT !.bullets = Append(@, RemoveFirst(BulletPattern, line, FALSE))]
    ELSE IF Len(line) > 10
    THEN IF st.bullets # <<>>
         THEN [st EXCEPT !.bullets[Len(st.bullets)] = @ \o <<" ">> \o line]
         ELSE [st EXCEPT !.bullets = <<line>>]
    ELSE st

\* One pass of the loop (32-112)
ExperienceLine(st, line, prevLine) ==
    IF Test(dateRangePattern, line, TRUE)
    THEN Opened(st, NewExperience(line, Exec(dateRangePattern, line, TRUE, 1), prevLine))
    ELSE IF st.has THEN Continued(st, line) ELSE st

\* The loop from line i on, the first line read being line first
RECURSIVE ExperienceLoop(_, _, _, _)
ExperienceLoop(lines, i, first, st) ==
    IF i > Len(lines) THEN st
    ELSE ExperienceLoop(lines, i + 1, first,
                        ExperienceLine(st, lines[i], IF i > first THEN lines[i - 1] ELSE Undefined))

\* The entries at the end of the loop (114-119)
ExperiencesOf(st) ==
    IF IsNamed(st) THEN Append(st.experiences, finalizeExperience(st.currentExp, st.bullets))
    ELSE st.experiences

\* The entries of the trimmed lines (19-119)
ExperiencesIn(lines) ==
    IF lines = <<>> THEN <<>>
    ELSE IF Test(ExperienceHeadingPattern, lines[1], TRUE)
         THEN ExperiencesOf(ExperienceLoop(lines, 2, 2, ExperienceStart))
         ELSE ExperiencesOf(ExperienceLoop(lines, 1, 1, ExperienceStart))

\* parseExperiences (12-120)
parseExperiences(content) == ExperiencesIn(TrimmedLines(content))


(***************************************************************************)
(* parseEducation (content-parser.ts)                                      *)
(***************************************************************************)
\* /^education|academic|qualifications/i (146)
EducationHeadingPattern ==
    Alt(<<Cat(<<Bol, Str(<<"e", "d", "u", "c", "a", "t", "i", "o", "n">>)>>), Str(<<"a", "c", "a", "d", "e", "m", "i", "c">>), Str(<<"q", "u", "a", "l", "i", "f", "i", "c", "a", "t", "i", "o", "n", "s">>)>>)

\* degreePattern (151-152)
degreePattern ==
    Cat(<<Wb, Alt(<<Cat(<<Str(<<"b", "a", "c", "h", "e", "l", "o", "r">>), Rep(Str(<<"'">>), 0, 1), Rep(Str(<<"s">>), 0, 1)>>), Cat(<<Str(<<"m", "a", "s", "t", "e", "r">>), Rep(Str(<<"'">>), 0, 1), Rep(Str(<<"s">>), 0, 1)>>), Cat(<<Str(<<"p", "h">>), Rep(Str(<<".">>), 0, 1), Str(<<"d">>), Rep(Str(<<".">>), 0, 1)>>), Str(<<"m", "b", "a">>), Str(<<"b", "s">>), Str(<<"b", "a">>), Str(<<"m", "s">>), Str(<<"m", "a">>), Cat(<<Str(<<"b">>), Rep(Str(<<".">>), 0, 1), Str(<<"s">>), Rep(Str(<<".">>), 0, 1)>>), Cat(<<Str(<<"b">>), Rep(Str(<<".">>), 0, 1), Str(<<"a">>), Rep(Str(<<".">>), 0, 1)>>), Cat(<<Str(<<"m">>), Rep(Str(<<".">>), 0, 1), Str(<<"s">>), Rep(Str(<<".">>), 0, 1)>>), Cat(<<Str(<<"m">>), Rep(Str(<<".">>), 0, 1), Str(<<"a">>), Rep(Str(<<".">>), 0, 1)>>), Cat(<<Str(<<"a", "s", "s", "o", "c", "i", "a", "t", "e">>), Rep(Str(<<"'">>), 0, 1), Rep(Str(<<"s">>), 0, 1)>>), Str(<<"d", "i", "p", "l", "o", "m", "a">>), Str(<<"c", "e", "r", "t", "i", "f", "i", "c", "a", "t", "e">>)>>), Wb>>)

\* The pattern of fullDegreeMatch (172-174), with its groups 1, 3 and 6
fullDegreePattern ==
    Cat(<<Wb, Grp(1, Alt(<<Cat(<<Str(<<"b", "a", "c", "h", "e", "l", "o", "r">>), Rep(Str(<<"'">>), 0, 1), Rep(Str(<<"s">>), 0, 1)>>), Cat(<<Str(<<"m", "a", "s", "t", "e", "r">>), Rep(Str(<<"'">>), 0, 1), Rep(Str(<<"s">>), 0, 1)>>), Cat(<<Str(<<"p", "h">>), Rep(Str(<<".">>), 0, 1), Str(<<"d">>), Rep(Str(<<".">>), 0, 1)>>), Str(<<"m", "b", "a">>), Str(<<"b", "s">>), Str(<<"b", "a">>), Str(<<"m", "s">>), Str(<<"m", "a">>), Cat(<<Str(<<"a", "s", "s", "o", "c", "i", "a", "t", "e">>), Rep(Str(<<"'">>), 0, 1), Rep(Str(<<"s">>), 0, 1)>>)>>)), Rep(Chr(Whitespaces), 1, -1), Rep(Alt(<<Str(<<"o", "f">>), Str(<<"i", "n">>)>>), 0, 1), Rep(Chr(Whitespaces), 0, -1), Grp(3, Cat(<<Rep(Chr(WordClass), 1, -1), Rep(Cat(<<Rep(Chr(Whitespaces), 1, -1), Rep(Chr(WordClass), 1, -1)>>), 0, -1)>>)), Rep(Chr(Whitespaces), 0, -1), Rep(Cat(<<Str(<<"i", "n">>), Rep(Chr(Whitespaces), 1, -1), Grp(6, Cat(<<Rep(Chr(WordClass), 1, -1), Rep(Cat(<<Rep(Chr(Whitespaces), 1, -1), Rep(Chr(WordClass), 1, -1)>>), 0, -1)>>))>>), 0, 1)>>)

\* /\s+in\s+(\w+(\s+\w+)*)/i (182), with its group 1
fieldPattern ==
    Cat(<<Rep(Chr(Whitespaces), 1, -1), Str(<<"i", "n">>), Rep(Chr(Whitespaces), 1, -1), Grp(1, Cat(<<Rep(Chr(WordClass), 1, -1), Rep(Cat(<<Rep(Chr(Whitespaces), 1, -1), Rep(Chr(WordClass), 1, -1)>>), 0, -1)>>))>>)

\* /\b(university|college|institute|school|academy)\b/i (196)
InstitutionPattern ==
    Cat(<<Wb, Alt(<<Str(<<"u", "n", "i", "v", "e", "r", "s", "i", "t", "y">>), Str(<<"c", "o", "l", "l", "e", "g", "e">>), Str(<<"i", "n", "s", "t", "i", "t", "u", "t", "e">>), Str(<<"s", "c", "h", "o", "o", "l">>), Str(<<"a", "c", "a", "d", "e", "m", "y">>)>>), Wb>>)

\* /\d{4}/ (197)
FourDigitsPattern ==
    Rep(Chr(Digits), 4, 4)

\* /\b(\d{4})\b/ (200)
YearPattern ==
    Cat(<<Wb, Grp(1, Rep(Chr(Digits), 4, 4)), Wb>>)

\* /\b(19|20)\d{2}\b/ (206)
CenturyYearPattern ==
    Cat(<<Wb, Alt(<<Str(<<"1", "9">>), Str(<<"2", "0">>)>>), Rep(Chr(Digits), 2, 2), Wb>>)

UnknownInstitution == <<"U", "n", "k", "n", "o", "w", "n", " ", "I", "n", "s", "t", "i", "t", "u", "t", "i", "o", "n">>
DefaultDegree == <<"D", "e", "g", "r", "e", "e">>
MayGraduation == <<"-", "0", "5">>

\* finalizeEducation (222-231)
finalizeEducation(edu) ==
    ParsedEducation(IF edu.institution # <<>> THEN edu.institution ELSE UnknownInstitution,
                    IF edu.degree # <<>> THEN edu.degree ELSE DefaultDegree,
                    edu.field, Undefined, edu.endDate, <<>>)

\* a || b || '' of two groups of a match
FirstCaptured(a, b) == IF Truthy(a) THEN a ELSE IF Truthy(b) THEN b ELSE <<>>

\* degree and field of a line that the full pattern matches (175-177)
FullDegree(line, m) ==
    [degree |-> Group(line, m, 1)
                   \o (IF Truthy(Group(line, m, 3)) THEN <<" ", "o", "f", " ">> \o Group(line, m, 3)
                       ELSE <<>>),
     field |-> FirstCaptured(Group(line, m, 6), Group(line, m, 3))]

\* degree and field of a line that only the degree pattern matches (179-185)
PlainDegree(line, degreeMatch) ==
    [degree |-> Matched(line, degreeMatch),
     field |-> IF Test(fieldPattern, SubSeq(line, degreeMatch.end, Len(line)), TRUE)
               THEN FirstGroup(fieldPattern, SubSeq(line, degreeMatch.end, Len(line)), TRUE, 1)
               ELSE <<>>]

\* currentEdu of a line with a degree (167-193)
EducationOf(named) ==
    [degree |-> TrimWhitespace(named.degree), field |-> TrimWhitespace(named.field),
     institution |-> <<>>, endDate |-> Undefined]

NewEducation(line) ==
    IF Test(fullDegreePattern, line, TRUE)
    THEN EducationOf(FullDegree(line, Exec(fullDegreePattern, line, TRUE, 1)))
    ELSE EducationOf(PlainDegree(line, Exec(degreePattern, line, TRUE, 1)))

NoEducation == [degree |-> <<>>, field |-> <<>>, institution |-> <<>>, endDate |-> Undefined]

EducationStart == [education |-> <<>>, has |-> FALSE, currentEdu |-> NoEducation]

\* A line with a degree: the entry so far is pushed if it has an
\* institution, and the line's entry is the current one (161-193)
Degreed(st, edu) ==
    [education |-> IF st.has /\ st.currentEdu.institution # <<>>
                   THEN Append(st.education, finalizeEducation(st.currentEdu))
                   ELSE st.education,
     has |-> TRUE,
     currentEdu |-> edu]

\* The year of the line and "-05", or what the entry has (199-203, 205-209)
GraduationOf(year, endDate) == IF year = Undefined THEN endDate ELSE year \o MayGraduation

\* A line without degree behind an entry's line (194-211)
Schooled(st, line) ==
    IF st.currentEdu.institution = <<>> /\ Test(InstitutionPattern, line, TRUE)
    THEN [st EXCEPT !.currentEdu.institution = TrimWhitespace(RemoveFirst(FourDigitsPattern, line, FALSE)),
                    !.currentEdu.endDate = GraduationOf(FirstGroup(YearPattern, line, FALSE, 1), @)]
    ELSE IF st.currentEdu.endDate = Undefined
    THEN [st EXCEPT !.currentEdu.endDate = GraduationOf(FirstMatch(CenturyYearPattern, line, FALSE), @)]
    ELSE st

\* One pass of the loop (156-212)
EducationLine(st, line) ==
    IF Test(degreePattern, line, TRUE) THEN Degreed(st, NewEducation(line))
    ELSE IF st.has THEN Schooled(st, line) ELSE st

RECURSIVE EducationLoop(_, _, _)
EducationLoop(lines, i, st) ==
    IF i > Len(lines) THEN st ELSE EducationLoop(lines, i + 1, EducationLine(st, lines[i]))

\* The entries at the end of the loop (214-219)
EducationsOf(st) ==
    IF st.has /\ (st.currentEdu.institution # <<>> \/ st.currentEdu.degree # <<>>)
    THEN Append(st.education, finalizeEducation(st.currentEdu))
    ELSE st.education

\* The entries of the trimmed lines (144-219)
EducationsIn(lines) ==
    IF lines = <<>> THEN <<>>
    ELSE IF Test(EducationHeadingPattern, lines[1], TRUE)
         THEN EducationsOf(EducationLoop(lines, 2, EducationStart))
         ELSE EducationsOf(EducationLoop(lines, 1, EducationStart))

\* parseEducation (137-220)
parseEducation(content) == EducationsIn(TrimmedLines(content))


(***************************************************************************)
(* parseProjects (content-parser.ts)                                       *)
(***************************************************************************)
\* /^projects?|portfolio/i (245)
ProjectsHeadingPattern ==
    Alt(<<Cat(<<Bol, Str(<<"p", "r", "o", "j", "e", "c", "t">>), Rep(Str(<<"s">>), 0, 1)>>), Str(<<"p", "o", "r", "t", "f", "o", "l", "i", "o">>)>>)

\* urlPattern (250)
urlPattern ==
    Cat(<<Str(<<"h", "t", "t", "p">>), Rep(Str(<<"s">>), 0, 1), Str(<<":", "/", "/">>), Rep(NotChr(Whitespaces), 1, -1)>>)

\* /\b(built with|technologies|tech stack|using):/i (292)
TechnologiesPattern ==
    Cat(<<Wb, Alt(<<Str(<<"b", "u", "i", "l", "t", " ", "w", "i", "t", "h">>), Str(<<"t", "e", "c", "h", "n", "o", "l", "o", "g", "i", "e", "s">>), Str(<<"t", "e", "c", "h", " ", "s", "t", "a", "c", "k">>), Str(<<"u", "s", "i", "n", "g">>)>>), Str(<<":">>)>>)

\* /:/ (293)
ColonPattern ==
    Str(<<":">>)

\* /[,|]/ (296)
CommaOrBarPattern ==
    Chr({",", "|"})

NoProject == [name |-> <<>>, url |-> Undefined, technologies |-> Undefined]

ProjectStart == [projects |-> <<>>, has |-> FALSE, currentProject |-> NoProject, description |-> <<>>]

\* currentProject as it is pushed, with the description joined (267-268, 306-307)
ProjectOf(project, description) ==
    ParsedProject(project.name, Undefined, project.url, Undefined, Undefined,
                  Join(description, <<"\n">>), project.technologies)

\* currentProject of a line that reads like a title (272-276)
NewProject(line) ==
    [name |-> IF Test(urlPattern, line, TRUE) THEN TrimWhitespace(RemoveFirst(urlPattern, line, TRUE))
              ELSE line,
     url |-> FirstMatch(urlPattern, line, TRUE),
     technologies |-> Undefined]

\* A title line that starts a project: the project so far is pushed if it
\* has a name (264-277)
Titled(st, line) ==
    [projects |-> IF st.has /\ st.currentProject.name # <<>>
                  THEN Append(st.projects, ProjectOf(st.currentProject, st.description))
                  ELSE st.projects,
     has |-> TRUE,
     currentProject |-> NewProject(line),
     description |-> IF st.has /\ st.currentProject.name # <<>> THEN <<>> ELSE st.description]

\* techPart.split(/[,|]/).map((t) => t.trim()).filter(Boolean), techPart being
\* what stands between the first colon and the second (293-299)
TechnologiesOf(parts, technologies) ==
    IF Len(parts) >= 2 /\ parts[2] # <<>>
    THEN TrimmedItems(Split(CommaOrBarPattern, parts[2], FALSE))
    ELSE technologies

\* A bulleted or long line behind a project's title, cleanLine being the
\* line without its bullet (279-300)
Described(st, line, cleanLine) ==
    [st EXCEPT !.currentProject.url =
                    IF Test(urlPattern, line, TRUE) /\ ~Truthy(@)
                    THEN FirstMatch(urlPattern, line, TRUE) ELSE @,
               !.description = IF Len(cleanLine) > 0 THEN Append(@, cleanLine) ELSE @,
               !.currentProject.technologies =
                    IF Test(TechnologiesPattern, cleanLine, TRUE)
                    THEN TechnologiesOf(Split(ColonPattern, cleanLine, FALSE), @)
                    ELSE @]

\* One pass of the loop (255-302), isFirst telling the first line read
ProjectLine(st, line, isFirst) ==
    IF line[1] \notin {Bullet, "-"} /\ Len(line) < 100
    THEN IF isFirst \/ (st.has /\ st.description # <<>>) THEN Titled(st, line) ELSE st
    ELSE IF st.has THEN Described(st, line, RemoveFirst(BulletPattern, line, FALSE))
    ELSE st

RECURSIVE ProjectLoop(_, _, _, _)
ProjectLoop(lines, i, first, st) ==
    IF i > Len(lines) THEN st
    ELSE ProjectLoop(lines, i + 1, first, ProjectLine(st, lines[i], i = first))

\* The projects at the end of the loop (304-310)
ProjectsOf(st) ==
    IF st.has /\ st.currentProject.name # <<>>
    THEN Append(st.projects, ProjectOf(st.currentProject, st.description))
    ELSE st.projects

ProjectsIn(lines) ==
    IF lines = <<>> THEN <<>>
    ELSE IF Test(ProjectsHeadingPattern, lines[1], TRUE)
         THEN ProjectsOf(ProjectLoop(lines, 2, 2, ProjectStart))
         ELSE ProjectsOf(ProjectLoop(lines, 1, 1, ProjectStart))

\* parseProjects (236-311)
parseProjects(content) == ProjectsIn(TrimmedLines(content))

(***************************************************************************)
(* parseCertifications (content-parser.ts)                                 *)
(***************************************************************************)
\* /^certifications?|licenses?|credentials?/i (325)
CertificationsHeadingPattern ==
    Alt(<<Cat(<<Bol, Str(<<"c", "e", "r", "t", "i", "f", "i", "c", "a", "t", "i", "o", "n">>), Rep(Str(<<"s">>), 0, 1)>>), Cat(<<Str(<<"l", "i", "c", "e", "n", "s", "e">>), Rep(Str(<<"s">>), 0, 1)>>), Cat(<<Str(<<"c", "r", "e", "d", "e", "n", "t", "i", "a", "l">>), Rep(Str(<<"s">>), 0, 1)>>)>>)

\* issuerPatterns (338-343), each with its group 1, and whether it has the i flag
issuerPatterns == <<
    [pattern |-> Cat(<<Rep(Chr(Whitespaces), 0, -1), Chr({"-", "U+2013", "U+2014"}), Rep(Chr(Whitespaces), 0, -1), Grp(1, Rep(NotChr({"\n", "\r"}), 1, -1)), Eol>>), ignoreCase |-> FALSE],
    [pattern |-> Cat(<<Rep(Chr(Whitespaces), 0, -1), Str(<<"(">>), Grp(1, Rep(NotChr({"\n", "\r"}), 1, -1)), Str(<<")">>), Rep(Chr(Whitespaces), 0, -1), Eol>>), ignoreCase |-> FALSE],
    [pattern |-> Cat(<<Rep(Chr(Whitespaces), 1, -1), Str(<<"b", "y">>), Rep(Chr(Whitespaces), 1, -1), Grp(1, Rep(NotChr({"\n", "\r"}), 1, -1)), Eol>>), ignoreCase |-> TRUE],
    [pattern |-> Cat(<<Rep(Chr(Whitespaces), 1, -1), Str(<<"f", "r", "o", "m">>), Rep(Chr(Whitespaces), 1, -1), Grp(1, Rep(NotChr({"\n", "\r"}), 1, -1)), Eol>>), ignoreCase |-> TRUE] >>

\* The date pattern of a certification line (358-360)
CertificationDatePattern ==
    Cat(<<Wb, Alt(<<Cat(<<Alt(<<Cat(<<Str(<<"j", "a", "n">>), Rep(Str(<<"u", "a", "r", "y">>), 0, 1)>>), Cat(<<Str(<<"f", "e", "b">>), Rep(Str(<<"r", "u", "a", "r", "y">>), 0, 1)>>), Cat(<<Str(<<"m", "a", "r">>), Rep(Str(<<"c", "h">>), 0, 1)>>), Cat(<<Str(<<"a", "p", "r">>), Rep(Str(<<"i", "l">>), 0, 1)>>), Str(<<"m", "a", "y">>), Cat(<<Str(<<"j", "u", "n">>), Rep(Str(<<"e">>), 0, 1)>>), Cat(<<Str(<<"j", "u", "l">>), Rep(Str(<<"y">>), 0, 1)>>), Cat(<<Str(<<"a", "u", "g">>), Rep(Str(<<"u", "s", "t">>), 0, 1)>>), Cat(<<Str(<<"s", "e", "p">>), Rep(Cat(<<Str(<<"t">>), Rep(Str(<<"e", "m", "b", "e", "r">>), 0, 1)>>), 0, 1)>>), Cat(<<Str(<<"o", "c", "t">>), Rep(Str(<<"o", "b", "e", "r">>), 0, 1)>>), Cat(<<Str(<<"n", "o", "v">>), Rep(Str(<<"e", "m", "b", "e", "r">>), 0, 1)>>), Cat(<<Str(<<"d", "e", "c">>), Rep(Str(<<"e", "m", "b", "e", "r">>), 0, 1)>>)>>), Rep(Chr(Whitespaces), 0, -1), Rep(Chr(Digits), 4, 4)>>), Cat(<<Rep(Chr(Digits), 4, 4), Wb>>)>>)>>)

\* /\b(credential|id|#)\s*:?\s*([A-Z0-9-]+)/i (366), with its group 2
CredentialPattern ==
    Cat(<<Wb, Alt(<<Str(<<"c", "r", "e", "d", "e", "n", "t", "i", "a", "l">>), Str(<<"i", "d">>), Str(<<"#">>)>>), Rep(Chr(Whitespaces), 0, -1), Rep(Str(<<":">>), 0, 1), Rep(Chr(Whitespaces), 0, -1), Grp(2, Rep(Chr(Capitals \cup Digits \cup {"-"}), 1, -1))>>)

UnknownIssuer == <<"U", "n", "k", "n", "o", "w", "n", " ", "I", "s", "s", "u", "e", "r">>

MinCertificationLength == 5

\* issuer and name by the first of the issuer patterns from the k-th on that
\* matches the line (345-353)
RECURSIVE IssuerOf(_, _)
IssuerOf(line, k) ==
    IF k > Len(issuerPatterns) THEN [issuer |-> Undefined, name |-> line]
    ELSE IF Test(issuerPatterns[k].pattern, line, issuerPatterns[k].ignoreCase)
    THEN [issuer |-> TrimWhitespace(FirstGroup(issuerPatterns[k].pattern, line,
                                               issuerPatterns[k].ignoreCase, 1)),
          name |-> TrimWhitespace(SubSeq(line, 1,
                      Exec(issuerPatterns[k].pattern, line, issuerPatterns[k].ignoreCase, 1).index - 1))]
    ELSE IssuerOf(line, k + 1)

\* The certification of a line without its bullet (335-385)
CertificationOf(line, named) ==
    ParsedCertification(named.name,
                        IF Truthy(named.issuer) THEN named.issuer ELSE UnknownIssuer,
                        IF Test(CertificationDatePattern, line, TRUE)
                        THEN parseDate(FirstMatch(CertificationDatePattern, line, TRUE))
                        ELSE Undefined,
                        Undefined,
                        FirstGroup(CredentialPattern, line, TRUE, 2),
                        FirstMatch(urlPattern, line, TRUE))

\* What a line adds to the list (330-386)
CertificationLine(line) ==
    IF Len(line) < MinCertificationLength \/ IssuerOf(line, 1).name = <<>> THEN <<>>
    ELSE <<CertificationOf(line, IssuerOf(line, 1))>>

CertificationsFrom(lines, first) ==
    Concat([k \in 1..(Len(lines) - first + 1) |->
               CertificationLine(RemoveFirst(BulletPattern, lines[first + k - 1], FALSE))])

CertificationsIn(lines) ==
    IF lines = <<>> THEN <<>>
    ELSE IF Test(CertificationsHeadingPattern, lines[1], TRUE) THEN CertificationsFrom(lines, 2)
    ELSE CertificationsFrom(lines, 1)

\* parseCertifications (316-390)
parseCertifications(content) == CertificationsIn(TrimmedLines(content))


(***************************************************************************)
(* parseResumeText (index.ts 83-171). rawText is a sequence of lines, as   *)
(* for detectSections; the extractors and the section parsers get its      *)
(* characters. parseDate of parseInfo, the time of the call, is left out.  *)
(***************************************************************************)
HeaderLength == 500

\* rawText.substring(0, Math.min(500, rawText.length))
headerText(text) == SubSeq(text, 1, Min(HeaderLength, Len(text)))

\* What the loop over the sections starts from (99-104)
NoSections ==
    [summary |-> Undefined, experiences |-> <<>>, education |-> <<>>, skills |-> <<>>,
     projects |-> <<>>, certifications |-> <<>>]

\* section.content.split('\n').slice(1).join('\n').trim()
summaryLines(content) == TrimWhitespace(JoinLines(Tail(content)))

\* The switch on section.type (107-134)
ProcessSection(found, type, content) ==
    CASE type = "summary" -> [found EXCEPT !.summary = summaryLines(content)]
      [] type = "experience" -> [found EXCEPT !.experiences = parseExperiences(JoinLines(content))]
      [] type = "education" -> [found EXCEPT !.education = parseEducation(JoinLines(content))]
      [] type = "skills" -> [found EXCEPT !.skills = parseSkills(JoinLines(content))]
      [] type = "projects" -> [found EXCEPT !.projects = parseProjects(JoinLines(content))]
      [] type = "certifications" ->
            [found EXCEPT !.certifications = parseCertifications(JoinLines(content))]
      [] OTHER -> found

\* for (const section of sections) (106-135)
RECURSIVE ProcessSections(_, _, _)
ProcessSections(sections, i, found) ==
    IF i > Len(sections) THEN found
    ELSE ProcessSections(sections, i + 1,
                         ProcessSection(found, sections[i].type, sections[i].content))

Bonus(condition, points) == IF condition THEN points ELSE 0

\* confidence before the cap, with a bonus of 10 for the job title.
confidenceTitleTen(fullName, jobTitle, email, experiences, education) ==
    50 + Bonus(Truthy(fullName), 10) + Bonus(Truthy(jobTitle), 10) + Bonus(Truthy(email), 10)
       + Bonus(Len(experiences) > 0, 15) + Bonus(Len(education) > 0, 10)

\* confidence before the cap (138-144)
confidence(fullName, jobTitle, email, experiences, education) ==
    50 + Bonus(Truthy(fullName), 10) + Bonus(Truthy(jobTitle), 5) + Bonus(Truthy(email), 10)
       + Bonus(Len(experiences) > 0, 15) + Bonus(Len(education) > 0, 10)

WarnName == "Could not detect name. Please verify personal information."
WarnEmail == "No email address found."
WarnExperience == "No work experience detected. Check section headers."
WarnSkills == "No skills section detected."

Warning(condition, message) == IF condition THEN <<message>> ELSE <<>>

\* warnings after the pushes of 147-150
warningsOf(warns, fullName, email, experiences, skills) ==
    warns \o Warning(~Truthy(fullName), WarnName) \o Warning(~Truthy(email), WarnEmail)
             \o Warning(Len(experiences) = 0, WarnExperience)
             \o Warning(Len(skills) = 0, WarnSkills)

\* The object returned (152-170)
ParsedResume(text, src, fileName, warns, fullName, jobTitle, contact, found) ==
    [fullName |-> fullName, jobTitle |-> jobTitle, contact |-> contact,
     summary |-> found.summary, experiences |-> found.experiences,
     education |-> found.education, skills |-> found.skills, projects |-> found.projects,
     certifications |-> found.certifications, rawText |-> text,
     parseInfo |-> [source |-> src, fileName |-> fileName,
                    confidence |-> Min(confidence(fullName, jobTitle, contact.email,
                                                  found.experiences, found.education), 100),
                    warnings |-> warningsOf(warns, fullName, contact.email,
                                            found.experiences, found.skills)]]

\* What a call that a TypeError left has for a result
ParseThrown == [error |-> "TypeError"]

IsThrown(parsed) == "error" \in DOMAIN parsed

\* Lines 94-170, once extractName returned fullName: the TypeError of
\* extractJobTitle leaves parseResumeText too.
ParsedNamed(text, src, fileName, warns, fullName, jobTitle, sections) ==
    IF jobTitle = TypeErrorThrown THEN ParseThrown
    ELSE ParsedResume(text, src, fileName, warns, fullName, jobTitle,
                      extractContactInfo(headerText(text)),
                      ProcessSections(sections, 1, NoSections))

ParsedFrom(text, src, fileName, warns, fullName, sections) ==
    ParsedNamed(text, src, fileName, warns, fullName,
                extractJobTitle(headerText(text), fullName), sections)

\* The RegExp state after the call: text.match(URL_PATTERN) and
\* text.match(GITHUB_PATTERN) of extractContactInfo leave lastIndex at 0; a
\* TypeError comes before them.
IndexAfter(re, thrown) == IF thrown THEN re ELSE [re EXCEPT !.url = 0, !.github = 0]

ParseResult(text, src, fileName, warns, detected) ==
    [parsed |-> ParsedFrom(text, src, fileName, warns,
                           extractName(headerText(text)), detected.sections),
     re |-> detected.re]

\* parseResumeText(rawText, source, fileName, warnings) under the RegExp state
\* re: what it returns and the RegExp state left behind.
parseResumeText(lines, src, fileName, warns, re) ==
    ParseResult(JoinLines(lines), src, fileName, warns, detectSections(lines, re))

(***************************************************************************)
(* Calls of parseResumeText. A resume is a header (name, job title, e-mail *)
(* address, each present or not), then its sections.                       *)
(***************************************************************************)
HeaderBlocks ==
    {name \o title \o email \o <<"LEmpty">> :
        name \in {<<>>, <<"LName">>, <<"LNameUpper">>},
        title \in {<<>>, <<"LTitle">>},
        email \in {<<>>, <<"LEmailLine">>}}

ExperienceBlocks == {<<>>, <<"LExperience", "LSeniorJob", "LBullet", "LEmpty">>}

EducationBlocks == {<<>>, <<"LEducation", "LDegree", "LUniversity", "LEmpty">>}

SkillsBlock == <<"LSkillsHeading", "LThreeSkills">>

\* What a resume ends with: the skills; the skills, a summary and a contact
\* footer; the skills, projects and certifications
LastBlocks ==
    {SkillsBlock,
     SkillsBlock \o <<"LEmpty", "LSummaryHeading", "LSummaryText", "LEmpty",
                      "LContact", "LContactLine">>,
     SkillsBlock \o <<"LEmpty", "LProjectsHeading", "LRepo", "LTechBullet", "LEmpty",
                      "LCertifications", "LCertificate">>}

Texts ==
    {header \o experience \o education \o last :
        header \in HeaderBlocks, experience \in ExperienceBlocks,
        education \in EducationBlocks, last \in LastBlocks}

\* The sample resume: "Jane Doe", "Software Engineer", "jane@example.com", an
\* experience, an education and a skills section
SampleText ==
    <<"LName", "LTitle", "LEmailLine", "LEmpty",
      "LExperience", "LSeniorJob", "LBullet", "LEmpty",
      "LEducation", "LDegree", "LUniversity", "LEmpty",
      "LSkillsHeading", "LThreeSkills">>

SourceText == "text"
FileName == "resume.txt"

\* How often the page parses one text
MaxCalls == 2

TxtInit ==
    /\ txtLines = SampleText
    /\ txtIndex = ReInit
    /\ txtParsed = <<>>
    /\ txtCalls = 0

\* What a call leaves behind: its result and the RegExp state
Returned(r) ==
    /\ txtParsed' = r.parsed
    /\ txtIndex' = IndexAfter(r.re, IsThrown(r.parsed))

\* parseResumeText(rawText, 'text', 'resume.txt'): the page parses the text,
\* for the first time or once more.
CallParseText ==
    /\ txtCalls < MaxCalls
    /\ Returned(parseResumeText(txtLines, SourceText, FileName, <<>>, txtIndex))
    /\ txtCalls' = txtCalls + 1
    /\ UNCHANGED txtLines
    /\ UNCHANGED otherThanTxt

TxtNext == CallParseText


(***************************************************************************)
(* Calls of parseExperiences. The section is written from its entries: a   *)
(* line with the position, the company and the date range in month names   *)
(* ("Engineer at Acme Inc | Mar 2019 - Jun 2021"), then the bullets.       *)
(***************************************************************************)
\* The month names as a resume writes them
WrittenMonths == <<
    <<"J", "a", "n">>, <<"F", "e", "b">>, <<"M", "a", "r">>, <<"A", "p", "r">>,
    <<"M", "a", "y">>, <<"J", "u", "n">>, <<"J", "u", "l">>, <<"A", "u", "g">>,
    <<"S", "e", "p">>, <<"O", "c", "t">>, <<"N", "o", "v">>, <<"D", "e", "c">>
>>

\* A month of a year; month 0 and no year stand for "Present"
MonthOf(month, year) == [month |-> month, year |-> year]
Present == MonthOf(0, <<>>)

\* A year written without a month
YearOf(year) == MonthOf(0, year)

Year2016 == <<"2", "0", "1", "6">>
Year2018 == <<"2", "0", "1", "8">>
Year2019 == <<"2", "0", "1", "9">>
Year2021 == <<"2", "0", "2", "1">>

\* "Mar 2019", "Present"
DateToken(d) ==
    IF d = Present THEN <<"P", "r", "e", "s", "e", "n", "t">>
    ELSE IF d.month = 0 THEN d.year
    ELSE WrittenMonths[d.month] \o <<" ">> \o d.year

\* "Mar 2019 - Jun 2021"
RangeText(entry) == DateToken(entry.start) \o <<" ", "-", " ">> \o DateToken(entry.end)

\* The line that opens an entry
DateLine(entry) ==
    IF entry.position # <<>> /\ entry.company # <<>>
    THEN entry.position \o <<" ", "a", "t", " ">> \o entry.company \o <<" ", "|", " ">> \o RangeText(entry)
    ELSE IF entry.position # <<>> THEN entry.position \o <<" ", "|", " ">> \o RangeText(entry)
    ELSE RangeText(entry)

\* The lines of an entry: the opening line, then "- " and each bullet
EntryLines(entry) ==
    <<DateLine(entry)>> \o [i \in 1..Len(entry.bullets) |-> <<"-", " ">> \o entry.bullets[i]]

RECURSIVE EntriesLines(_)
EntriesLines(entries) ==
    IF entries = <<>> THEN <<>> ELSE EntryLines(Head(entries)) \o EntriesLines(Tail(entries))

\* The section: the heading "EXPERIENCE", then the entries
ExperienceContent(entries) == Join(<<LExperience>> \o EntriesLines(entries), <<"\n">>)

Entry(position, company, start, end, bullets) ==
    [position |-> position, company |-> company, start |-> start, end |-> end,
     bullets |-> bullets]

PositionEngineer == <<"E", "n", "g", "i", "n", "e", "e", "r">>
PositionAnalyst == <<"A", "n", "a", "l", "y", "s", "t">>
CompanyAcme == <<"A", "c", "m", "e", " ", "I", "n", "c">>
CompanyInitech == <<"I", "n", "i", "t", "e", "c", "h", " ", "L", "t", "d">>
BulletBuilt == <<"B", "u", "i", "l", "t", " ", "t", "h", "e", " ", "b", "i", "l", "l", "i", "n", "g", " ", "p", "l", "a", "t", "f", "o", "r", "m">>
BulletShipped == <<"S", "h", "i", "p", "p", "e", "d", " ", "t", "h", "e", " ", "a", "u", "d", "i", "t", " ", "r", "e", "p", "o", "r", "t", "s">>

\* What an entry names: position and company, the position alone, neither
Namings(position, company) == {<<position, company>>, <<position, <<>>>>, <<<<>>, <<>>>>}

\* The latest entries of a resume
LatestEntries ==
    {Entry(named[1], named[2], start, end, bullets) :
        named \in Namings(PositionEngineer, CompanyAcme),
        start \in {MonthOf(1, Year2019), MonthOf(3, Year2019)},
        end \in {Present, MonthOf(6, Year2021)},
        bullets \in {<<>>, <<BulletBuilt>>}}

\* The entries before the latest
EarlierEntries ==
    {Entry(named[1], named[2], MonthOf(9, Year2016), end, bullets) :
        named \in Namings(PositionAnalyst, CompanyInitech),
        end \in {Present, MonthOf(12, Year2018)},
        bullets \in {<<>>, <<BulletShipped>>}}

\* The same with the years alone: "Engineer at Acme Inc | 2019 - 2021"
LatestYears ==
    {Entry(named[1], named[2], YearOf(Year2019), end, bullets) :
        named \in Namings(PositionEngineer, CompanyAcme),
        end \in {Present, YearOf(Year2021)},
        bullets \in {<<>>, <<BulletBuilt>>}}

EarlierYears ==
    {Entry(named[1], named[2], YearOf(Year2016), YearOf(Year2018), bullets) :
        named \in Namings(PositionAnalyst, CompanyInitech),
        bullets \in {<<>>, <<BulletShipped>>}}

ExperienceSections ==
    {<<latest>> : latest \in LatestEntries \cup LatestYears}
        \cup {<<latest, earlier>> : latest \in LatestEntries, earlier \in EarlierEntries}
        \cup {<<latest, earlier>> : latest \in LatestYears, earlier \in EarlierYears}

\* One entry: "Engineer at Acme Inc | Jan 2019 - Present" and a bullet
ExpInit ==
    /\ expEntries = <<Entry(PositionEngineer, CompanyAcme, MonthOf(1, Year2019), Present,
                            <<BulletBuilt>>)>>
    /\ expResult = <<>>
    /\ expDone = FALSE

\* parseExperiences(section.content)
CallParseExperiences ==
    /\ ~expDone
    /\ expResult' = parseExperiences(ExperienceContent(expEntries))
    /\ expDone' = TRUE
    /\ UNCHANGED expEntries
    /\ UNCHANGED otherThanExp

ExpNext == CallParseExperiences


(***************************************************************************)
(* Calls of parseEducation. The section is written from its entries: a     *)
(* line with the degree ("Bachelor of Science in Computer Science"), then, *)
(* where the entry names it, a line with the school ("State University     *)
(* 2016").                                                                 *)
(***************************************************************************)
MaxDegrees == 3

School(name, year) == [name |-> name, year |-> year]
NoSchool == School(<<>>, <<>>)

LMaster == <<"M", "a", "s", "t", "e", "r", " ", "o", "f", " ", "A", "r", "t", "s", " ", "i", "n", " ", "H", "i", "s", "t", "o", "r", "y">>
StateUniversity == <<"S", "t", "a", "t", "e", " ", "U", "n", "i", "v", "e", "r", "s", "i", "t", "y">>

Study(degree, school) == [degree |-> degree, school |-> school]

\* The lines of an entry
StudyLines(entry) ==
    <<entry.degree>>
        \o (IF entry.school = NoSchool THEN <<>>
            ELSE IF entry.school.year = <<>> THEN <<entry.school.name>>
            ELSE <<entry.school.name \o <<" ">> \o entry.school.year>>)

RECURSIVE StudiesLines(_)
StudiesLines(entries) ==
    IF entries = <<>> THEN <<>> ELSE StudyLines(Head(entries)) \o StudiesLines(Tail(entries))

\* The section: the heading "EDUCATION", then the entries
EducationContent(entries) == Join(<<LEducation>> \o StudiesLines(entries), <<"\n">>)

Studies ==
    {Study(degree, school) :
        degree \in {LDegree, LMaster},
        school \in {NoSchool, School(StateUniversity, Year2016)}}

EducationSections == UNION {[1..n -> Studies] : n \in 1..MaxDegrees}

\* The education of the sample resume
EduInit ==
    /\ eduEntries = <<Study(LDegree, School(StateUniversity, Year2016))>>
    /\ eduResult = <<>>
    /\ eduDone = FALSE

\* parseEducation(section.content)
CallParseEducation ==
    /\ ~eduDone
    /\ eduResult' = parseEducation(EducationContent(eduEntries))
    /\ eduDone' = TRUE
    /\ UNCHANGED eduEntries
    /\ UNCHANGED otherThanEdu

EduNext == CallParseEducation


(***************************************************************************)
(* ResumeImport (resume-import/index.tsx). AnimatePresence mode="wait"     *)
(* keeps one panel in the page: the panel of an earlier state stays, with  *)
(* its handlers, until its exit animation is over.                         *)
(***************************************************************************)
MaxRequests == 3
MaxNested == 2

FailedMsg == "Failed to parse resume"

Null == NoData

\* What parseResumeFile resolves with for a file (it never rejects)
ResultsOf(f) ==
    {Success(parsedOf(<<>>, IF isPDF(f) THEN "pdf" ELSE "docx", f.name, <<>>)),
     Failure(EmptyMsg),
     Failure("")}

ImportFiles == {[type |-> PdfMime, name |-> NamePdf], [type |-> DocxMime, name |-> NameDocx]}

\* The panel rendered for a state (112, 167, 186, 213)
PanelOf(st, parsed) ==
    CASE st \in {"idle", "dragging"} -> "dropzone"
      [] st = "parsing" -> "parsing"
      [] st = "error" -> "error"
      [] st = "preview" /\ parsed # Null -> "preview"
      [] OTHER -> "none"

ImpInit ==
    /\ importState = "idle"
    /\ error = Absent
    /\ parsedResume = Null
    /\ dragCounter = 0
    /\ panel = "dropzone"
    /\ requests = <<>>
    /\ shownRequest = 0

\* The exit animation of the panel is over and the panel of the state enters.
PanelExit ==
    /\ panel # PanelOf(importState, parsedResume)
    /\ panel' = PanelOf(importState, parsedResume)
    /\ UNCHANGED <<importState, error, parsedResume, dragCounter, requests, shownRequest>>
    /\ UNCHANGED otherThanImp

\* handleFile up to the await (25-29)
handleFileCalled(f) ==
    /\ Len(requests) < MaxRequests
    /\ importState' = "parsing"
    /\ error' = Absent
    /\ requests' = Append(requests, [file |-> f, pending |-> TRUE])
    /\ UNCHANGED <<parsedResume, panel, shownRequest>>
    /\ UNCHANGED otherThanImp

\* handleFile after the await (31-37): parseResumeFile of the call resolved
handleFileResumed(i, outcome) ==
    /\ requests[i].pending
    /\ requests' = [requests EXCEPT ![i].pending = FALSE]
    /\ IF outcome.success /\ outcome.data.present
       THEN /\ parsedResume' = outcome.data
            /\ importState' = "preview"
            /\ UNCHANGED error
       ELSE /\ error' = (IF outcome.error \notin {Absent, ""} THEN outcome.error ELSE FailedMsg)
            /\ importState' = "error"
            /\ UNCHANGED parsedResume
    /\ shownRequest' = i
    /\ UNCHANGED <<dragCounter, panel>>
    /\ UNCHANGED otherThanImp

\* handleDragEnter (40-45)
handleDragEnter ==
    /\ panel = "dropzone"
    /\ dragCounter < MaxNested
    /\ dragCounter' = dragCounter + 1
    /\ importState' = "dragging"
    /\ UNCHANGED <<error, parsedResume, panel, requests, shownRequest>>
    /\ UNCHANGED otherThanImp

\* handleDragLeave (47-57)
handleDragLeave ==
    /\ panel = "dropzone"
    /\ dragCounter > -MaxNested
    /\ dragCounter' = dragCounter - 1
    /\ importState' = IF dragCounter - 1 = 0 THEN "idle" ELSE importState
    /\ UNCHANGED <<error, parsedResume, panel, requests, shownRequest>>
    /\ UNCHANGED otherThanImp

\* handleDrop with a file (64-75)
handleDrop(f) ==
    /\ panel = "dropzone"
    /\ dragCounter' = 0
    /\ handleFileCalled(f)

\* handleDrop without a file (76)
handleDropEmpty ==
    /\ panel = "dropzone"
    /\ dragCounter' = 0
    /\ importState' = "idle"
    /\ UNCHANGED <<error, parsedResume, panel, requests, shownRequest>>
    /\ UNCHANGED otherThanImp

\* handleFileSelect (82-90)
handleFileSelect(f) ==
    /\ panel = "dropzone"
    /\ UNCHANGED dragCounter
    /\ handleFileCalled(f)

\* handleReset (99-106), the button of the error panel and of the preview
handleReset ==
    /\ panel \in {"error", "preview"}
    /\ importState' = "idle"
    /\ error' = Absent
    /\ parsedResume' = Null
    /\ shownRequest' = 0
    /\ UNCHANGED <<dragCounter, panel, requests>>
    /\ UNCHANGED otherThanImp

ImpNext ==
    \/ PanelExit
    \/ handleDragEnter
    \/ handleDragLeave
    \/ \E f \in ImportFiles : handleDrop(f)
    \/ handleDropEmpty
    \/ \E f \in ImportFiles : handleFileSelect(f)
    \/ \E i \in 1..Len(requests) : \E outcome \in ResultsOf(requests[i].file) :
           handleFileResumed(i, outcome)
    \/ handleReset


(***************************************************************************)
(* resumeReducer (template-context.tsx) on the experiences, the projects   *)
(* and the section configuration. A SectionConfig object has an address:   *)
(* the objects of DEFAULT_SECTION_ORDER are at 1..9, and the object that   *)
(* toggleSection makes for the section at position i of the array is at    *)
(* 9 + i. An array of SectionConfig is a sequence of addresses.            *)
(***************************************************************************)
MaxDispatches == 3
MaxPayload == 2

SectionConfig(id, enabled, order) == [id |-> id, enabled |-> enabled, order |-> order]

\* The objects of DEFAULT_SECTION_ORDER as the module is loaded (80-91)
DefaultSections ==
    <<SectionConfig("personal", TRUE, 0),
      SectionConfig("summary", TRUE, 1),
      SectionConfig("experience", TRUE, 2),
      SectionConfig("education", TRUE, 3),
      SectionConfig("skills", TRUE, 4),
      SectionConfig("projects", FALSE, 5),
      SectionConfig("certifications", FALSE, 6),
      SectionConfig("expertise", FALSE, 7),
      SectionConfig("links", FALSE, 8)>>

SectionIds == {DefaultSections[i].id : i \in 1..Len(DefaultSections)}
Orders == {DefaultSections[i].order : i \in 1..Len(DefaultSections)}

\* The array DEFAULT_SECTION_ORDER
DEFAULT_SECTION_ORDER == [i \in 1..Len(DefaultSections) |-> i]

\* The address of a new object for position i
Own(i) == Len(DefaultSections) + i

Addresses == 1..Own(Len(DefaultSections))

\* The objects that an array refers to
Referenced(config) == {config[i] : i \in 1..Len(config)}

\* The values of the objects of an array
ConfigOf(objs, config) == [i \in 1..Len(config) |-> objs[config[i]]]

\* Objects that nothing refers to any more are as before their creation.
Collect(objs, config) ==
    [a \in Addresses |->
        IF a > Len(DefaultSections) /\ a \notin Referenced(config)
        THEN DefaultSections[a - Len(DefaultSections)]
        ELSE objs[a]]

\* updated.findIndex((s) => s.id === sectionId), from 1; 0 for -1
SectionIndex(objs, config, sectionId) ==
    IF \E i \in 1..Len(config) : objs[config[i]].id = sectionId
    THEN CHOOSE i \in 1..Len(config) :
             /\ objs[config[i]].id = sectionId
             /\ \A j \in 1..(i - 1) : objs[config[j]].id # sectionId
    ELSE 0

\* The callback of updated.forEach (186-200) on one object
Moved(obj, sectionId, oldOrder, newOrder) ==
    IF obj.id = sectionId THEN [obj EXCEPT !.order = newOrder]
    ELSE IF newOrder < oldOrder
    THEN (IF obj.order >= newOrder /\ obj.order < oldOrder
          THEN [obj EXCEPT !.order = @ + 1] ELSE obj)
    ELSE (IF obj.order > oldOrder /\ obj.order <= newOrder
          THEN [obj EXCEPT !.order = @ - 1] ELSE obj)

MovedAll(objs, config, sectionId, oldOrder, newOrder) ==
    [a \in Addresses |->
        IF a \in Referenced(config) THEN Moved(objs[a], sectionId, oldOrder, newOrder)
        ELSE objs[a]]

\* reorderSections (177-203): the array returned has the addresses of config;
\* the memory after the call
reorderSections(objs, config, sectionId, newOrder) ==
    IF SectionIndex(objs, config, sectionId) = 0 THEN objs
    ELSE MovedAll(objs, config, sectionId,
                  objs[config[SectionIndex(objs, config, sectionId)]].order, newOrder)

\* toggleSection (208-210): the array returned
toggleSection(objs, config, sectionId) ==
    [i \in 1..Len(config) |-> IF objs[config[i]].id = sectionId THEN Own(i) ELSE config[i]]

\* toggleSection (208-210): the memory after the call
Toggled(objs, config, sectionId) ==
    [a \in Addresses |->
        IF \E i \in 1..Len(config) : a = Own(i) /\ objs[config[i]].id = sectionId
        THEN [objs[config[a - Len(DefaultSections)]] EXCEPT !.enabled = ~@]
        ELSE objs[a]]

\* initialResumeData (942-960)
initialResumeData ==
    [experiences |-> <<>>, projects |-> <<>>, sectionConfig |-> DEFAULT_SECTION_ORDER]

ExperienceIds == {"exp-1", "exp-2"}
ProjectIds == {"proj-1", "proj-2"}
UnknownId == "unknown"

\* The payloads of the reorder actions
Payloads(ids) == UNION {[1..n -> ids \cup {UnknownId}] : n \in 0..MaxPayload}

Has(list, id) == \E i \in 1..Len(list) : list[i] = id

\* payload.map((id) => list.find((e) => e.id === id)).filter(Boolean)
Ordered(list, payload) == SelectSeq(payload, LAMBDA id : Has(list, id))

ResInit ==
    /\ objects = [a \in Addresses |-> DefaultSections[((a - 1) % Len(DefaultSections)) + 1]]
    /\ resumeData = initialResumeData
    /\ dispatched = "none"
    /\ dispatches = 0

\* dispatch(action): the state and the memory after resumeReducer
Dispatch(next, objs) ==
    /\ dispatches < MaxDispatches
    /\ dispatches' = dispatches + 1
    /\ resumeData' = next
    /\ objects' = Collect(objs, next.sectionConfig)
    /\ UNCHANGED otherThanRes

\* ADD_EXPERIENCE (1010-1011), the id of the payload being new
ADD_EXPERIENCE(id) ==
    /\ ~Has(resumeData.experiences, id)
    /\ dispatched' = "ADD_EXPERIENCE"
    /\ Dispatch([resumeData EXCEPT !.experiences = Append(@, id)], objects)

\* REMOVE_EXPERIENCE (1020-1021)
REMOVE_EXPERIENCE(id) ==
    /\ dispatched' = "REMOVE_EXPERIENCE"
    /\ Dispatch([resumeData EXCEPT !.experiences = SelectSeq(@, LAMBDA e : e # id)], objects)

\* REORDER_EXPERIENCES (1022-1027)
REORDER_EXPERIENCES(payload) ==
    /\ dispatched' = "REORDER_EXPERIENCES"
    /\ Dispatch([resumeData EXCEPT !.experiences = Ordered(@, payload)], objects)

\* ADD_PROJECT (1046-1047), the id of the payload being new
ADD_PROJECT(id) ==
    /\ ~Has(resumeData.projects, id)
    /\ dispatched' = "ADD_PROJECT"
    /\ Dispatch([resumeData EXCEPT !.projects = Append(@, id)], objects)

\* REMOVE_PROJECT (1056-1057)
REMOVE_PROJECT(id) ==
    /\ dispatched' = "REMOVE_PROJECT"
    /\ Dispatch([resumeData EXCEPT !.projects = SelectSeq(@, LAMBDA p : p # id)], objects)

\* REORDER_PROJECTS (1058-1063)
REORDER_PROJECTS(payload) ==
    /\ dispatched' = "REORDER_PROJECTS"
    /\ Dispatch([resumeData EXCEPT !.projects = Ordered(@, payload)], objects)

\* TOGGLE_SECTION (1103-1104)
TOGGLE_SECTION(sectionId) ==
    /\ dispatched' = "TOGGLE_SECTION"
    /\ Dispatch([resumeData EXCEPT !.sectionConfig = toggleSection(objects, @, sectionId)],
                Toggled(objects, resumeData.sectionConfig, sectionId))

\* REORDER_SECTION (1105-1109)
REORDER_SECTION(sectionId, newOrder) ==
    /\ dispatched' = "REORDER_SECTION"
    /\ Dispatch(resumeData,
                reorderSections(objects, resumeData.sectionConfig, sectionId, newOrder))

\* RESET (1137-1138)
RESET ==
    /\ dispatched' = "RESET"
    /\ Dispatch(initialResumeData, objects)

ResNext ==
    \/ \E id \in ExperienceIds : ADD_EXPERIENCE(id)
    \/ \E id \in ExperienceIds : REMOVE_EXPERIENCE(id)
    \/ \E payload \in Payloads(ExperienceIds) : REORDER_EXPERIENCES(payload)
    \/ \E id \in ProjectIds : ADD_PROJECT(id)
    \/ \E id \in ProjectIds : REMOVE_PROJECT(id)
    \/ \E payload \in Payloads(ProjectIds) : REORDER_PROJECTS(payload)
    \/ \E sectionId \in SectionIds : TOGGLE_SECTION(sectionId)
    \/ \E sectionId \in SectionIds, newOrder \in Orders : REORDER_SECTION(sectionId, newOrder)
    \/ RESET

(***************************************************************************)
(* Specifications                                                          *)
(***************************************************************************)
Init ==
    /\ FileInit /\ SecInit /\ OvInit /\ AtsInit /\ DateInit /\ ConvInit /\ SkillInit
    /\ TxtInit
    /\ ExpInit
    /\ EduInit
    /\ ImpInit
    /\ ResInit

SpecFile == Init /\ [][FileNext]_vars

\* The section detector is first called on a text of one line, any line.
InitSections ==
    /\ FileInit
    /\ OvInit
    /\ AtsInit
    /\ DateInit
    /\ ConvInit
    /\ SkillInit
    /\ TxtInit
    /\ ExpInit
    /\ EduInit
    /\ ImpInit
    /\ ResInit
    /\ secText \in {<<k>> : k \in LineKinds}
    /\ lastIndex = ReInit
    /\ firstSections = <<>>
    /\ lastSections = <<>>
    /\ detectCount = 0

SpecSections == InitSections /\ [][SecNext]_vars

SpecOverlaps == Init /\ [][OvNext]_vars

\* The score panel starts with any of the resumes and job descriptions.
InitATS ==
    /\ FileInit
    /\ SecInit
    /\ OvInit
    /\ DateInit
    /\ ConvInit
    /\ SkillInit
    /\ TxtInit
    /\ ExpInit
    /\ EduInit
    /\ ImpInit
    /\ ResInit
    /\ data \in Resumes \cup ScenarioResumes \cup TerseResumes
    /\ jobDesc \in JobDescriptions
    /\ scored = FALSE
    /\ atsScore = NoScore
    /\ keywordsBefore = -1
    /\ added = 0

SpecATS == InitATS /\ [][AtsNext]_vars

SpecDates == Init /\ [][DateNext]_vars

\* The conversion starts with any of the convInput identities and no entries.
InitConvert ==
    /\ FileInit
    /\ SecInit
    /\ OvInit
    /\ AtsInit
    /\ DateInit
    /\ SkillInit
    /\ TxtInit
    /\ ExpInit
    /\ EduInit
    /\ ImpInit
    /\ ResInit
    /\ convInput \in ParsedHeads
    /\ convResult = NotCalled
    /\ convDone = FALSE

SpecConvert == InitConvert /\ [][ConvNext]_vars

SpecSkills == Init /\ [][SkillNext]_vars

\* parseResumeText on each of the resumes
InitText ==
    /\ FileInit /\ SecInit /\ OvInit /\ AtsInit /\ DateInit /\ ConvInit /\ SkillInit
    /\ ExpInit
    /\ EduInit
    /\ ImpInit
    /\ ResInit
    /\ txtLines \in Texts
    /\ txtIndex = ReInit
    /\ txtParsed = <<>>
    /\ txtCalls = 0

SpecText == InitText /\ [][TxtNext]_vars

\* parseExperiences on each of the experience sections
InitExperiences ==
    /\ FileInit /\ SecInit /\ OvInit /\ AtsInit /\ DateInit /\ ConvInit /\ SkillInit
    /\ TxtInit
    /\ EduInit
    /\ ImpInit
    /\ ResInit
    /\ expEntries \in ExperienceSections
    /\ expResult = <<>>
    /\ expDone = FALSE

SpecExperiences == InitExperiences /\ [][ExpNext]_vars

\* parseEducation on each of the education sections
InitEducation ==
    /\ FileInit /\ SecInit /\ OvInit /\ AtsInit /\ DateInit /\ ConvInit /\ SkillInit
    /\ TxtInit
    /\ ExpInit
    /\ ImpInit
    /\ ResInit
    /\ eduEntries \in EducationSections
    /\ eduResult = <<>>
    /\ eduDone = FALSE

SpecEducation == InitEducation /\ [][EduNext]_vars

SpecImport == Init /\ [][ImpNext]_vars

SpecReducer == Init /\ [][ResNext]_vars

(***************************************************************************)
(* Claims about the section detector                                       *)
(***************************************************************************)
\* C8: the list detectSections returns is ordered by startIndex and pairwise
\* non-overlapping: each match starts strictly after the end of the one before
\* it, also when a heading line matches the patterns of several section types.
C8_OrderedDisjoint ==
    detectCount > 0 =>
        /\ \A i \in 1..Len(lastSections) : lastSections[i].startIndex <= lastSections[i].endIndex
        /\ \A i \in 1..(Len(lastSections) - 1) :
              /\ lastSections[i].startIndex < lastSections[i + 1].startIndex
              /\ lastSections[i].endIndex < lastSections[i + 1].startIndex

\* C8 witness: a text with the heading "Personal Projects" (contact and
\* projects patterns) and another heading was resolved to two matches.
C8_Witness ==
    /\ detectCount > 0
    /\ Len(secText) = 3
    /\ secText[2] = "LPersonalProjects"
    /\ HeaderTypesOf[secText[2]] = <<"contact", "projects">>
    /\ secText[1] = "LSkills"
    /\ Len(lastSections) = 2

\* C9: resolving an already resolved list returns it unchanged; of two
\* overlapping matches with different confidences the one with the higher
\* confidence is kept, whichever comes first; with equal confidences the first
\* is kept.
C9_Resolve ==
    ovDone =>
        /\ resolveOverlaps(ovOutput) = ovOutput
        /\ (Len(ovInput) = 2 /\ ovInput[2].startIndex <= ovInput[1].endIndex) =>
              ovOutput = IF ovInput[2].confidence > ovInput[1].confidence
                         THEN <<ovInput[2]>>
                         ELSE <<ovInput[1]>>

\* C9 witness: a match of confidence 60 followed by an overlapping one of
\* confidence 80 was resolved to the second.
C9_Witness ==
    /\ ovDone
    /\ Len(ovInput) = 2
    /\ ovInput[2].startIndex <= ovInput[1].endIndex
    /\ ovInput[1].confidence = 60
    /\ ovInput[2].confidence = 80
    /\ ovOutput = <<ovInput[2]>>

\* C10: detectSections called again with the same text, whatever other
\* detectSections and parseResumeText calls came before or in between, returns
\* the list the first call returned (types, offsets, content, confidence).
C10_SameResult ==
    detectCount >= 2 => lastSections = firstSections

(***************************************************************************)
(* Claims about the ATS score                                              *)
(***************************************************************************)
\* C5: for every resume and every job description (absent, empty or a text)
\* the overall score and each of the four scores of the breakdown lie within
\* 0..100.
C5_ScoresInRange ==
    scored =>
        /\ atsScore.overall \in 0..100
        /\ atsScore.breakdown.completeness \in 0..100
        /\ atsScore.breakdown.keywords \in 0..100
        /\ atsScore.breakdown.formatting \in 0..100
        /\ atsScore.breakdown.content \in 0..100

\* C5 witness: a resume scored against a job description reached the upper
\* end of the completeness, keyword and formatting scores.
C5_Witness ==
    /\ scored
    /\ jobDesc = JobDescription(JdManagement)
    /\ atsScore.breakdown.completeness = 100
    /\ atsScore.breakdown.keywords = 100
    /\ atsScore.breakdown.formatting = 100

\* C7: with the job description fixed, adding to the skills a keyword
\* extracted from that job description never lowers breakdown.keywords.
C7_Monotonic ==
    keywordsBefore >= 0 => atsScore.breakdown.keywords >= keywordsBefore

(***************************************************************************)
(* Claims about parseDate                                                  *)
(***************************************************************************)
\* ^\d{4}-(0[1-9]|1[0-2])$
IsYearMonth(r) ==
    /\ r # Undefined
    /\ Len(r) = 7
    /\ \A i \in 1..4 : r[i] \in Digits
    /\ r[5] = "-"
    /\ \/ r[6] = "0" /\ r[7] \in Digits \ {"0"}
       \/ r[6] = "1" /\ r[7] \in {"0", "1", "2"}

\* C11: for every input "<Month> <YYYY>" (full or three-letter month name, any
\* case), "<YYYY>" or "<MM>/<YYYY>", parseDate returns a string of four
\* digits, a hyphen and a month code 01..12; for "present" or "current" in any
\* case it returns undefined.
C11_YearMonth ==
    dateDone =>
        /\ dateInput \in MonthYearStrings \cup Years
                          \cup UNION {SlashStrings(m, year) : m \in 1..12, year \in Years}
              => IsYearMonth(dateResult)
        /\ dateInput \in OpenStrings => dateResult = Undefined

\* "SEPTEMBER 2021" was parsed to "2021-09".
C11_Witness ==
    /\ dateDone
    /\ dateInput = MonthYearString(MonthForms[9][1], "upper", <<"2", "0", "2", "1">>)
    /\ dateResult = <<"2", "0", "2", "1", "-", "0", "9">>

\* C12: for every input "MM/YYYY" with the month in 1..12, in one or two
\* digits, parseDate returns YYYY-MM with that month in two digits.
C12_MonthKept ==
    dateDone =>
        \A m \in 1..12, year \in Years :
            dateInput \in SlashStrings(m, year) =>
                dateResult = year \o <<"-">> \o (IF m < 10 THEN <<"0", DigitChars[m + 1]>>
                                                  ELSE <<"1", DigitChars[m - 9]>>)

(***************************************************************************)
(* Claims about convertToResumeData                                        *)
(***************************************************************************)
\* The ids of a list of records are pairwise distinct and each is the label
\* of the list followed by the position of the record, counted from 0.
ClaimIds(records, label) ==
    /\ \A i, j \in 1..Len(records) : i # j => records[i].id # records[j].id
    /\ \A i \in 1..Len(records) : records[i].id = label \o Decimal(i - 1)

\* C13: convertToResumeData applied to a ParsedResume with N experience
\* entries returns exactly N experience records in the same order, whose ids
\* are pairwise distinct and are determined by the position alone (so they are
\* the same on every call); the same holds for education, projects and
\* certifications.
C13_SameEntries ==
    convDone =>
        /\ Len(convResult.experiences) = Len(convInput.experiences)
        /\ \A i \in 1..Len(convInput.experiences) :
              /\ convResult.experiences[i].company = convInput.experiences[i].company
              /\ convResult.experiences[i].position = convInput.experiences[i].position
              /\ convResult.experiences[i].description = convInput.experiences[i].description
        /\ ClaimIds(convResult.experiences, <<"i", "m", "p", "o", "r", "t", "e", "d", "-", "e", "x", "p", "-">>)
        /\ Len(convResult.education) = Len(convInput.education)
        /\ \A i \in 1..Len(convInput.education) :
              /\ convResult.education[i].institution = convInput.education[i].institution
              /\ convResult.education[i].degree = convInput.education[i].degree
        /\ ClaimIds(convResult.education, <<"i", "m", "p", "o", "r", "t", "e", "d", "-", "e", "d", "u", "-">>)
        /\ Len(convResult.projects) = Len(convInput.projects)
        /\ \A i \in 1..Len(convInput.projects) :
              /\ convResult.projects[i].name = convInput.projects[i].name
              /\ convResult.projects[i].description = convInput.projects[i].description
        /\ ClaimIds(convResult.projects, <<"i", "m", "p", "o", "r", "t", "e", "d", "-", "p", "r", "o", "j", "-">>)
        /\ Len(convResult.certifications) = Len(convInput.certifications)
        /\ \A i \in 1..Len(convInput.certifications) :
              /\ convResult.certifications[i].name = convInput.certifications[i].name
              /\ convResult.certifications[i].issuer = convInput.certifications[i].issuer
        /\ ClaimIds(convResult.certifications, <<"i", "m", "p", "o", "r", "t", "e", "d", "-", "c", "e", "r", "t", "-">>)

\* A resume with two different entries in each of the four lists was convResult.
C13_Witness ==
    /\ convDone
    /\ Len(convResult.experiences) = 2
    /\ convResult.experiences[1].company # convResult.experiences[2].company
    /\ Len(convResult.education) = 2
    /\ Len(convResult.projects) = 2
    /\ Len(convResult.certifications) = 2
    /\ convResult.certifications[1].name # convResult.certifications[2].name


(***************************************************************************)
(* Claims about parseSkills                                                *)
(***************************************************************************)
\* The skills returned, as a set
SkillSet(skills) == {skills[i] : i \in 1..Len(skills)}

\* C15: for the skills section made of the heading line "SKILLS" and the line
\* "Python, Go, SQL" the parsed skills are exactly Python, Go and SQL; and for
\* every skills section (a heading line, then the list) the first skill after
\* the heading is among the parsed skills and the heading is not.
C15_SkillsKept ==
    skillsDone =>
        /\ skillsInput = SampleSkills => SkillSet(skillsResult) = {SkillPython, SkillGo, SkillSql}
        /\ \A h \in SkillHeadings, row \in SkillRows, sep \in SkillSeparators :
              skillsInput = SkillsContent(h, row, sep) =>
                  /\ row[1] \in SkillSet(skillsResult)
                  /\ h \notin SkillSet(skillsResult)


(***************************************************************************)
(* Claims about the score of whole resumes                                 *)
(***************************************************************************)
\* A description of at least 50 characters, bulleted and with numbers
IsBulletedWithNumbers(description) ==
    /\ Len(description) >= 50
    /\ \E c \in {Bullet, "-"} : Includes(description, <<c>>)
    /\ HasNumber(description)

\* The resume of scenario 3: full name, e-mail address, phone number, three
\* experience entries with such descriptions, two education entries, ten skills
IsScenario3(resume) ==
    /\ resume.personal.fullName # <<>>
    /\ resume.personal.email # <<>>
    /\ resume.personal.phone # <<>>
    /\ Len(resume.experiences) = 3
    /\ \A i \in 1..Len(resume.experiences) : IsBulletedWithNumbers(resume.experiences[i].description)
    /\ Len(resume.education) = 2
    /\ Len(resume.skills) = 10

\* C16: a resume with a full name, an e-mail address, a phone number, three
\* experience entries each with a bulleted description of at least 50
\* characters with numbers, two education entries and ten skills, scored
\* without a job description, has breakdown.completeness = 100 and
\* breakdown.keywords = 70.
C16_Scenario3 ==
    (scored /\ IsScenario3(data) /\ jobDesc = NoJobDescription) =>
        /\ atsScore.breakdown.completeness = 100
        /\ atsScore.breakdown.keywords = 70


\* The suggestions of a category about a section
SuggestionsOn(suggestions, category, section) ==
    {i \in 1..Len(suggestions) :
        suggestions[i].category = category /\ suggestions[i].section = section}

\* C17: for every resume without experience entries and without skills,
\* whatever its other fields, the score has a critical suggestion about the
\* experience and another about the skills (so at least two critical ones),
\* and breakdown.completeness is below 50.
C17_Scenario4 ==
    (scored /\ data.experiences = <<>> /\ data.skills = <<>>) =>
        /\ SuggestionsOn(atsScore.suggestions, "critical", "Experience") # {}
        /\ SuggestionsOn(atsScore.suggestions, "critical", "Skills") # {}
        /\ atsScore.breakdown.completeness < 50

\* C17 witness: such a resume with every personal field and an education
\* entry was scored: completeness 45, the most such a resume gets.
C17_Witness ==
    /\ scored
    /\ data.experiences = <<>>
    /\ data.skills = <<>>
    /\ data.personal = Personal(NameJane, Email, Phone, Location, JobTitle, SummaryGood)
    /\ data.education # <<>>
    /\ atsScore.breakdown.completeness = 45

\* The rank of a category in the order of the suggestions
Priority(category) ==
    CASE category = "critical" -> 0
      [] category = "important" -> 1
      [] category = "optional" -> 2

\* The suggestions the four sub-scores pushed for the data and the job
\* description, in the order of the concatenation (838-843)
Pushed ==
    calculateCompletenessScore(data).suggestions
        \o calculateFormattingScore(data).suggestions
        \o calculateContentScore(data).suggestions
        \o KeywordSuggestions(jobDesc.given /\ TrimWhitespace(jobDesc.text) # <<>>,
                              atsScore.breakdown.keywords)

Occurrences(suggestions, s) == Cardinality({i \in 1..Len(suggestions) : suggestions[i] = s})

\* The list is in the order of the priorities
IsByPriority(suggestions) ==
    \A i, j \in 1..Len(suggestions) :
        i < j => Priority(suggestions[i].category) <= Priority(suggestions[j].category)

\* Every suggestion pushed was pushed once and is in the list once, and the
\* list holds nothing else
HoldsEachOnce(suggestions, pushed) ==
    /\ Len(suggestions) = Len(pushed)
    /\ \A i \in 1..Len(pushed) :
          /\ Occurrences(pushed, pushed[i]) = 1
          /\ Occurrences(suggestions, pushed[i]) = 1

\* C18: the suggestions of every score are ordered by priority (no important
\* or optional suggestion before a critical one, no optional one before an
\* important one), and every suggestion the four sub-scores pushed is in the
\* list exactly as often as it was pushed: once.
C18_ByPriority ==
    scored => IsByPriority(atsScore.suggestions) /\ HoldsEachOnce(atsScore.suggestions, Pushed)

\* C18 witness: a score whose suggestions, of all three categories, were
\* pushed in another order than that of the priorities.
C18_Witness ==
    /\ scored
    /\ \A c \in {"critical", "important", "optional"} :
          \E i \in 1..Len(atsScore.suggestions) : atsScore.suggestions[i].category = c
    /\ ~IsByPriority(Pushed)


\* What scenario 1 looks for in a ParsedResume
AcmeInc == <<"A", "c", "m", "e", " ", "I", "n", "c">>
January2020 == <<"2", "0", "2", "0", "-", "0", "1">>
FortyPercent == <<"4", "0", "%">>
Bachelor == <<"B", "a", "c", "h", "e", "l", "o", "r">>
ComputerScience == <<"C", "o", "m", "p", "u", "t", "e", "r", " ", "S", "c", "i", "e", "n", "c", "e">>

IsScenario1(parsed) ==
    /\ parsed.fullName = LName
    /\ parsed.contact.email = LEmailLine
    /\ Len(parsed.experiences) = 1
    /\ Includes(parsed.experiences[1].company, AcmeInc)
    /\ parsed.experiences[1].current = "true"
    /\ parsed.experiences[1].startDate = January2020
    /\ Len(parsed.experiences[1].bullets) = 1
    /\ Includes(parsed.experiences[1].bullets[1], FortyPercent)
    /\ Len(parsed.education) = 1
    /\ Includes(parsed.education[1].degree, Bachelor)
    /\ Includes(parsed.education[1].field, ComputerScience)

\* C14: parseResumeText on the sample resume returns the name "Jane Doe", the
\* e-mail address "jane@example.com", exactly one experience, whose company
\* holds "Acme Inc", whose current is true, whose startDate is "2020-01" and
\* whose one bullet holds "40%", and exactly one education, whose degree holds
\* "Bachelor" and whose field holds "Computer Science".
C14_Scenario1 == (txtCalls > 0 /\ txtLines = SampleText) => IsScenario1(txtParsed)

\* C14 witness: the sample resume was parsed, with an experience and an
\* education in the result.
C14_Witness ==
    /\ txtCalls > 0
    /\ txtLines = SampleText
    /\ Len(txtParsed.experiences) = 1
    /\ Len(txtParsed.education) = 1


\* The points the spec gives for what a ParsedResume holds
PointsFor(parsed) ==
    50 + (IF Truthy(parsed.fullName) THEN 10 ELSE 0)
       + (IF Truthy(parsed.jobTitle) THEN 5 ELSE 0)
       + (IF Truthy(parsed.contact.email) THEN 10 ELSE 0)
       + (IF Len(parsed.experiences) >= 1 THEN 15 ELSE 0)
       + (IF Len(parsed.education) >= 1 THEN 10 ELSE 0)

\* C19: for every ParsedResume that parseResumeText returns,
\* parseInfo.confidence is the least of 100 and 50, plus 10 for a name, plus 5
\* for a job title, plus 10 for an e-mail address, plus 15 for one experience
\* or more, plus 10 for one education or more; so it lies between 50 and 100.
C19_Confidence ==
    (txtCalls > 0 /\ ~IsThrown(txtParsed)) =>
        /\ txtParsed.parseInfo.confidence = Min(100, PointsFor(txtParsed))
        /\ txtParsed.parseInfo.confidence >= 50
        /\ txtParsed.parseInfo.confidence <= 100

\* C19 witness: a resume was parsed that has a job title and an education but
\* neither a name nor an experience: confidence 65.
C19_Witness ==
    /\ txtCalls > 0
    /\ ~IsThrown(txtParsed)
    /\ Truthy(txtParsed.jobTitle)
    /\ ~Truthy(txtParsed.fullName)
    /\ txtParsed.contact.email = Undefined
    /\ Len(txtParsed.experiences) = 0
    /\ Len(txtParsed.education) = 1
    /\ txtParsed.parseInfo.confidence = 65


\* Each of the e-mail address, the phone number and the profile URLs that the
\* sweep of a text finds has a value among the contact fields.
ReportsAll(swept, contact) ==
    /\ swept.email # Undefined => contact.email # Undefined
    /\ swept.phone # Undefined => contact.phone # Undefined
    /\ swept.linkedin # Undefined => contact.linkedin # Undefined
    /\ swept.github # Undefined => contact.github # Undefined
    /\ swept.website # Undefined => contact.website # Undefined

\* C20: an e-mail address, a phone number or a profile URL that stands
\* anywhere in the text passed to parseResumeText, beyond the first 500
\* characters too, is reported in the contact fields of the ParsedResume.
C20_WholeText ==
    (txtCalls > 0 /\ ~IsThrown(txtParsed)) =>
        ReportsAll(extractContactInfo(JoinLines(txtLines)), txtParsed.contact)


(***************************************************************************)
(* Claims about PDFs without text                                          *)
(***************************************************************************)
\* Every page was read and none has a text fragment
TextFree == Len(textParts) = numPages /\ \A p \in 1..Len(textParts) : textParts[p] = <<>>

\* C28: for a PDF of which no page has a text fragment, whatever the number
\* of pages, parseResumeFile returns the empty-content failure: the page-break
\* markers between the pages do not count towards the 50 characters.
C28_TextFreePdf ==
    (pc = "done" /\ source = "pdf" /\ TextFree) =>
        result = Failure(EmptyMsg) /\ parseCalls = 0

(***************************************************************************)
(* Claims about parseExperiences                                           *)
(***************************************************************************)
\* "2019-03" for March 2019
YearMonth(d) == d.year \o <<"-">> \o MonthCode(d.month)

\* The month and year tokens of the range of an entry
RangeTokens(entry) ==
    {WrittenMonths[entry.start.month], entry.start.year}
        \cup (IF entry.end.month = 0 THEN {} ELSE {WrittenMonths[entry.end.month], entry.end.year})

\* What the spec says of the entry returned for a written entry
IsParsedRange(entry, returned) ==
    /\ returned.startDate = YearMonth(entry.start)
    /\ entry.end.month # 0 => returned.endDate = YearMonth(entry.end)
    /\ \A token \in RangeTokens(entry) :
          ~Includes(returned.position, token) /\ ~Includes(returned.company, token)

EveryEntryNamed(entries) == \A i \in 1..Len(entries) : entries[i].position # <<>>

MonthsWritten(entries) == \A i \in 1..Len(entries) : entries[i].start.month # 0

\* C21: for experience lines whose date range is written with month names
\* ("Mar 2019 - Jun 2021", "Jan 2019 - Present"), each naming a position,
\* parseExperiences returns one entry per line whose startDate is the start
\* month of the line as YYYY-MM, whose endDate is the end month as YYYY-MM when
\* the range is closed, and whose position and company hold none of the month
\* and year tokens of the range.
C21_MonthRanges ==
    (expDone /\ EveryEntryNamed(expEntries) /\ MonthsWritten(expEntries)) =>
        /\ Len(expResult) = Len(expEntries)
        /\ \A i \in 1..Len(expEntries) : IsParsedRange(expEntries[i], expResult[i])


\* The lines of the returned entry are bullets of the written entry
OwnLines(entry, returned) ==
    /\ \A k \in 1..Len(returned.bullets) :
          \E b \in 1..Len(entry.bullets) : returned.bullets[k] = entry.bullets[b]
    /\ returned.description = Join(returned.bullets, <<"\n">>)

\* The written entries that the returned entries come from, in their order
Origins(entries, returned) ==
    {f \in [1..Len(returned) -> 1..Len(entries)] :
        \A j, k \in 1..Len(returned) : j < k => f[j] < f[k]}

\* C26: the bullets and the description of each entry that parseExperiences
\* returns consist only of lines between the date-range line of that entry
\* and the next date-range line; the bullets of an entry that is dropped for
\* naming neither a company nor a position appear in no later entry.
C26_OwnBullets ==
    expDone =>
        \E f \in Origins(expEntries, expResult) :
            \A j \in 1..Len(expResult) : OwnLines(expEntries[f[j]], expResult[j])

(***************************************************************************)
(* Claims about the suggestions of the completeness score                  *)
(***************************************************************************)
\* The ids of the suggestions that calculateCompletenessScore pushes
CompletenessIds ==
    {"personal-name", "personal-email", "personal-phone", "personal-location", "personal-title",
     "personal-summary-short", "personal-summary", "experience-more", "experience-none",
     "experience-descriptions", "education-none", "skills-more", "skills-few", "skills-none"}

CompletenessSuggestions(suggestions) ==
    {i \in 1..Len(suggestions) : suggestions[i].id \in CompletenessIds}

\* C22: every shortfall of the completeness score appends a suggestion, so a
\* score with breakdown.completeness below 100 holds at least one suggestion
\* of the completeness criteria.
C22_ShortfallSuggested ==
    (scored /\ atsScore.breakdown.completeness < 100) =>
        CompletenessSuggestions(atsScore.suggestions) # {}


\* No run of three or more newline characters.
NoBlankRun(t) == \A i \in 1..Len(t) : t[i].c = "nl" => t[i].n < 3

\* No line starts or ends with spaces.
LinesTrimmed(t) ==
    \A i \in 1..Len(t) :
        t[i].c = "sp" => /\ i \notin {1, Len(t)}
                         /\ t[i - 1].c # "nl"
                         /\ t[i + 1].c # "nl"

\* C23: the text that parseDOCX returns after the cleanup never holds three or
\* more consecutive newline characters, every line of it is trimmed, and the
\* cleanup applied to it again changes nothing.
C23_Cleaned ==
    (pc \in {"resume", "done"} /\ docxCalls = 1) =>
        /\ NoBlankRun(extracted.text)
        /\ LinesTrimmed(extracted.text)
        /\ cleanExtractedText(extracted.text) = extracted.text


\* The conditions of the soft warnings that hold of a ParsedResume
MissingOf(parsed) ==
    Warning(~Truthy(parsed.fullName), "name") \o Warning(~Truthy(parsed.contact.email), "email")
        \o Warning(Len(parsed.experiences) = 0, "experiences")
        \o Warning(Len(parsed.education) = 0, "education")
        \o Warning(Len(parsed.skills) = 0, "skills")

\* C24: a text that parses gives a result, not a failure, that carries one
\* warning for each condition that holds of it, and no other warning: no name
\* detected, no e-mail address detected, no experience entry, no education
\* entry, no skill.
C24_SoftWarnings ==
    (txtCalls > 0 /\ ~IsThrown(txtParsed)) =>
        Len(txtParsed.parseInfo.warnings) = Len(MissingOf(txtParsed))


(***************************************************************************)
(* Claims about parseEducation                                             *)
(***************************************************************************)
\* The returned entry is the entry of the written one: its degree is of the
\* degree line and its institution is the school, or the default without one.
IsStudy(entry, returned) ==
    /\ Includes(entry.degree, returned.degree)
    /\ returned.institution =
          IF entry.school = NoSchool THEN UnknownInstitution ELSE entry.school.name

\* C27: parseEducation returns one entry for every line with a degree
\* keyword, in the order of the lines; an entry that has a degree and no
\* institution is kept when the next degree line comes, as it is kept, with
\* the default institution, at the end of the section.
C27_EveryDegree ==
    eduDone =>
        /\ Len(eduResult) = Len(eduEntries)
        /\ \A i \in 1..Len(eduEntries) : IsStudy(eduEntries[i], eduResult[i])


(***************************************************************************)
(* Claims about the import flow                                            *)
(***************************************************************************)
\* C25: the preview or the error that the import shows is the result of the
\* file submitted last, whatever the order of submissions, resets and
\* completions of parseResumeFile: a result that arrives after a newer
\* submission is discarded; and the state 'preview' has a parsedResume.
C25_LatestResult ==
    /\ importState \in {"preview", "error"} => shownRequest = Len(requests)
    /\ importState = "preview" => parsedResume # Null


(***************************************************************************)
(* Claims about resumeReducer                                              *)
(***************************************************************************)
\* C29: after any actions that end with RESET the sectionConfig of the state
\* is the default configuration, each section at its default order 0..8 with
\* its default enabled flag; and the objects of DEFAULT_SECTION_ORDER are
\* never modified, by reorderSections or otherwise.
C29_ResetToDefault ==
    /\ dispatched = "RESET" => ConfigOf(objects, resumeData.sectionConfig) = DefaultSections
    /\ ConfigOf(objects, DEFAULT_SECTION_ORDER) = DefaultSections


\* The list after holds the entries of the list before, each as often
Permuted(before, after) ==
    /\ Len(after) = Len(before)
    /\ \A i \in 1..Len(before) : Occurrences(after, before[i]) = Occurrences(before, before[i])

\* A step of a reorder action on one list of the state
OnlyPermutes(type, before, after, otherBefore, otherAfter) ==
    dispatched' = type =>
        /\ Permuted(before, after)
        /\ otherAfter = otherBefore
        /\ resumeData'.sectionConfig = resumeData.sectionConfig
        /\ objects' = objects

\* C30: REORDER_EXPERIENCES and REORDER_PROJECTS only permute: whatever ids
\* the payload holds (an id left out, an id twice, an unknown id), the list
\* after the action holds exactly the entries it held before, each once, and
\* the other fields of the state are unchanged.
C30_OnlyPermute ==
    [][/\ OnlyPermutes("REORDER_EXPERIENCES", resumeData.experiences, resumeData'.experiences,
                       resumeData.projects, resumeData'.projects)
       /\ OnlyPermutes("REORDER_PROJECTS", resumeData.projects, resumeData'.projects,
                       resumeData.experiences, resumeData'.experiences)]_vars

====
